---- MODULE Spec2Model ----
(***************************************************************************)
(* Personal-Finance-App: the monthly spend-analysis engine of              *)
(* finance-tracker/src/App.tsx (monthKey, detectRecurring, analyze) and    *)
(* the FinanceTracker component / DataService that feed it.                *)
(*                                                                         *)
(* Abstractions, stated once:                                              *)
(*  - amounts are integers (currency in minor units); on integers below    *)
(*    2^53 the additions and subtractions of IEEE-754 doubles are exact.   *)
(*    Means and standard deviations are never materialised: every          *)
(*    comparison the code makes on them is cross-multiplied into an exact  *)
(*    integer comparison.  Where the two sides of such a comparison are    *)
(*    exactly equal (a z-score of exactly 2, a deviation of exactly 0.2    *)
(*    times the mean, a mean of exactly a half before Math.round) the      *)
(*    rounding of the doubles decides the outcome: it is left to the       *)
(*    variable fpTie.                                                      *)
(*  - a JavaScript value is a record [t, v]: t is "number", "NaN",         *)
(*    "undefined" or "string" (a non-numeric string), v the integer when   *)
(*    t = "number".                                                        *)
(*  - a date is [y, m, d]; a month key "YYYY-MM" is <<y, m>>.              *)
(***************************************************************************)
EXTENDS Integers, Sequences, FiniteSets, TLC

VARIABLES
  expenses,       \* data.expenses, analyze's first argument
  budgets,        \* data.budgets, analyze's second argument: category -> amount
  month,          \* the focus month (FinanceTracker's month state)
  analysis,       \* useMemo(() => analyze(data.expenses, data.budgets, month))
  tz,             \* the host's UTC offset in hours, fixed for a run
  fpTie,          \* how double rounding falls at an exact threshold
  server,         \* the user's rows of the backend's expenses table
  serverBudgets,  \* the rows of the backend's budgets table, oldest first
  cache,          \* DataService.expenses
  aliased,        \* data.expenses and DataService.expenses are one array
  inflight,       \* the requests of FinanceTracker that await their response
  isLoading,      \* FinanceTracker's isLoading state
  nextId,         \* the id the backend gives to the next row
  session,        \* localStorage's auth_token, useAuth() and AuthWrapper
  call            \* how the last call of a DataService method ended

appVars == <<server, serverBudgets, cache, aliased, inflight, isLoading, nextId>>

sessionVars == <<session, call>>

vars == <<expenses, budgets, month, analysis, tz, fpTie, appVars, sessionVars>>

----------------------------------------------------------------------------
(* JavaScript values and the coercions the engine applies to them *)

Num(n) == [t |-> "number", v |-> n]
NaN == [t |-> "NaN", v |-> 0]
Undefined == [t |-> "undefined", v |-> 0]
NonNumericString == [t |-> "string", v |-> 0]

IsNum(x) == x.t = "number"

\* Number(x): undefined and a non-numeric string become NaN
ToNumber(x) == IF IsNum(x) THEN x ELSE NaN

\* x || 0: undefined, NaN and 0 are falsy; a non-empty string is truthy
OrZero(x) == IF x.t = "string" \/ (IsNum(x) /\ x.v # 0) THEN x ELSE Num(0)

\* a + b on numbers: NaN is absorbing
Plus(a, b) == IF IsNum(a) /\ IsNum(b) THEN Num(a.v + b.v) ELSE NaN

\* a - b on numbers
Minus(a, b) == IF IsNum(a) /\ IsNum(b) THEN Num(a.v - b.v) ELSE NaN

\* a > b: false as soon as one side is NaN
Gt(a, b) == IsNum(a) /\ IsNum(b) /\ a.v > b.v

\* Math.max(0, x)
MaxZero(x) == IF IsNum(x) THEN (IF x.v > 0 THEN x ELSE Num(0)) ELSE NaN

----------------------------------------------------------------------------
(* Sequences *)

RECURSIVE SumSeq(_)
SumSeq(s) == IF s = <<>> THEN 0 ELSE Head(s) + SumSeq(Tail(s))

RECURSIVE FirstSeen(_)
\* the distinct elements of s, each at its first occurrence
FirstSeen(s) ==
  IF s = <<>> THEN <<>>
  ELSE LET r == FirstSeen(SubSeq(s, 1, Len(s) - 1))
           x == s[Len(s)]
       IN IF \E i \in 1..Len(r) : r[i] = x THEN r ELSE Append(r, x)

Range(s) == {s[i] : i \in 1..Len(s)}

\* s.sort((a, b) => key(b) - key(a)) where keys[i] is key(s[i]): the stable
\* sort by descending key, as an insertion sort over the positions of s.  An
\* element goes before the first one whose key is smaller; a difference
\* that is NaN counts as 0.
SortDescending(s, keys) ==
  LET sorted[n \in 0..Len(s)] ==
        IF n = 0 THEN <<>>
        ELSE LET r == sorted[n - 1]
                 later == {i \in 1..Len(r) : Gt(keys[n], keys[r[i]])}
                 at == IF later = {} THEN Len(r) + 1
                       ELSE CHOOSE i \in later : \A j \in later : i <= j
             IN SubSeq(r, 1, at - 1) \o <<n>> \o SubSeq(r, at, Len(r))
  IN [i \in 1..Len(s) |-> s[sorted[Len(s)][i]]]

\* arr.slice(0, n)
Slice(s, n) == SubSeq(s, 1, IF Len(s) < n THEN Len(s) ELSE n)

RECURSIVE Gcd(_, _)
Gcd(a, b) == IF b = 0 THEN a ELSE Gcd(b, a % b)

Lcm(a, b) == (a * b) \div Gcd(a, b)

RECURSIVE LcmSet(_)
LcmSet(S) == IF S = {} THEN 1
             ELSE LET x == CHOOSE x \in S : TRUE IN Lcm(x, LcmSet(S \ {x}))

\* the sum of the values of the function f (its domain is finite)
SumFn(f) ==
  LET sum[T \in SUBSET DOMAIN f] ==
        IF T = {} THEN 0
        ELSE LET x == CHOOSE x \in T : TRUE IN f[x] + sum[T \ {x}]
  IN sum[DOMAIN f]

----------------------------------------------------------------------------
(* Property keys of a plain object *)

\* The keys of the model that are canonical array indices ("365", "2024"):
\* an object lists such keys first, in ascending numeric order, and only
\* then its other string keys in insertion order.
ArrayIndexValue(k) == CASE k = "365" -> 365 [] k = "2024" -> 2024 [] OTHER -> -1

IsArrayIndex(k) == ArrayIndexValue(k) >= 0

\* Object.keys / Object.entries order of an object whose keys were first
\* assigned in the order of ks (ks may repeat a key)
ObjectKeys(ks) ==
  LET d == FirstSeen(ks)
      idx == SelectSeq(d, IsArrayIndex)
  IN SortDescending(idx, [i \in 1..Len(idx) |-> Num(0 - ArrayIndexValue(idx[i]))])
       \o SelectSeq(d, LAMBDA k : ~IsArrayIndex(k))

----------------------------------------------------------------------------
(* monthKey: new Date(d) reads a date-only string as UTC midnight, and     *)
(* getFullYear / getMonth read it back in local time: in a zone behind UTC *)
(* the first day of a month falls on the last day of the month before.     *)

monthKey(date) ==
  IF tz < 0 /\ date.d = 1
  THEN (IF date.m = 1 THEN <<date.y - 1, 12>> ELSE <<date.y, date.m - 1>>)
  ELSE <<date.y, date.m>>

----------------------------------------------------------------------------
(* detectRecurring *)

\* stdev < mean * 0.2: the factor 0.2 as 1 / RecurringRatioInverse
RecurringRatioInverse == 5

\* the expenses of one merchant (byMerchant[merchant], months flattened)
OfMerchant(exps, merchant) == SelectSeq(exps, LAMBDA e : e.merchant = merchant)

\* Object.keys(byMerchant[merchant]): the distinct month keys of a merchant
MonthKeysOf(exps, merchant) == {monthKey(e.date) : e \in Range(OfMerchant(exps, merchant))}

\* months[m]: the expenses of a merchant in month key mk
InMonthKey(exps, merchant, mk) ==
  SelectSeq(OfMerchant(exps, merchant), LAMBDA e : monthKey(e.date) = mk)

\* RecurringStats over the per-month sums instead of the per-month averages
RecurringStats_sums(exps, merchant) ==
  LET mks == MonthKeysOf(exps, merchant)
      k == Cardinality(mks)
      Total(mk) ==
        LET es == InMonthKey(exps, merchant, mk)
        IN SumSeq([i \in 1..Len(es) |-> es[i].amount.v])
      sumScaled == SumFn([mk \in mks |-> Total(mk)])
      Dev(mk) == (k * Total(mk) - sumScaled) * (k * Total(mk) - sumScaled)
  IN [k |-> k, den |-> 1, sumScaled |-> sumScaled,
      sqDev |-> SumFn([mk \in mks |-> Dev(mk)]),
      numeric |-> \A e \in Range(OfMerchant(exps, merchant)) : IsNum(e.amount)]

\* The per-month averages of a merchant over the common denominator den:
\* avg(months[mk]) = Scaled(mk) / den, mean = sumScaled / (k * den),
\* variance = sqDev / (k^3 * den^2).
RecurringStats(exps, merchant) ==
  LET mks == MonthKeysOf(exps, merchant)
      k == Cardinality(mks)
      Count(mk) == Len(InMonthKey(exps, merchant, mk))
      den == LcmSet({Count(mk) : mk \in mks})
      Scaled(mk) ==
        LET es == InMonthKey(exps, merchant, mk)
        IN SumSeq([i \in 1..Len(es) |-> es[i].amount.v]) * (den \div Count(mk))
      sumScaled == SumFn([mk \in mks |-> Scaled(mk)])
      Dev(mk) == (k * Scaled(mk) - sumScaled) * (k * Scaled(mk) - sumScaled)
  IN [k |-> k, den |-> den, sumScaled |-> sumScaled,
      sqDev |-> SumFn([mk \in mks |-> Dev(mk)]),
      numeric |-> \A e \in Range(OfMerchant(exps, merchant)) : IsNum(e.amount)]

\* IsSteady with stdev <= mean * 0.2 and a mean of 0 let through
IsSteady_zeroAllowed(st) ==
  /\ st.numeric
  /\ st.sumScaled >= 0
  /\ RecurringRatioInverse * RecurringRatioInverse * st.sqDev
       <= st.k * st.sumScaled * st.sumScaled

\* IsSteady with stdev <= mean * 0.2
IsSteady_nonStrict(st) ==
  /\ st.numeric
  /\ RecurringRatioInverse * RecurringRatioInverse * st.sqDev
       <= st.k * st.sumScaled * st.sumScaled

\* if (stdev < mean * 0.2): with a NaN average the comparison is false; on
\* numbers it is mean > 0 and variance < mean^2 / 25, cross-multiplied.  When
\* the two sides are equal and not zero the rounding of the doubles decides
\* (fpTie); 0 < 0 is false in doubles too.
IsSteady(st) ==
  LET lhs == RecurringRatioInverse * RecurringRatioInverse * st.sqDev
      rhs == st.k * st.sumScaled * st.sumScaled
  IN /\ st.numeric
     /\ st.sumScaled > 0
     /\ (lhs < rhs \/ (lhs = rhs /\ fpTie))

\* RoundedMean cutting the fraction off
RoundedMean_truncated(st) == st.sumScaled \div (st.k * st.den)

\* a count whose averages are exact in doubles
IsPowerOfTwo(n) == n \in {1, 2, 4, 8, 16, 32, 64, 128, 256, 512, 1024, 2048, 4096}

\* Math.round(mean): the nearest integer, halves up.  When the mean is
\* exactly a half and a month's average is not exact in doubles (its count
\* is not a power of two), the computed mean may fall just below the half
\* and round down (fpTie).
RoundedMean(st) ==
  LET q == 2 * st.sumScaled + st.k * st.den
      d == 2 * st.k * st.den
  IN IF q % d = 0 /\ ~IsPowerOfTwo(st.den) /\ fpTie
     THEN (q \div d) - 1
     ELSE q \div d

detectRecurring(exps) ==
  LET merchants == ObjectKeys([i \in 1..Len(exps) |-> exps[i].merchant])
      kept == SelectSeq(merchants, LAMBDA m :
                LET st == RecurringStats(exps, m) IN st.k >= 2 /\ IsSteady(st))
      rec == [i \in 1..Len(kept) |->
                LET st == RecurringStats(exps, kept[i])
                IN [merchant |-> kept[i], mean |-> RoundedMean(st), months |-> st.k]]
  IN SortDescending(rec, [i \in 1..Len(rec) |-> Num(rec[i].mean)])

----------------------------------------------------------------------------
(* analyze *)

TopMerchantCount == 5
SmallAmount == 200
SmallDrainCount == 5
OutlierMinCount == 3
OutlierZ == 2

\* inMonthOf without its month test
inMonthOf_unfiltered(exps, m) == exps

\* expenses.filter((e) => monthKey(e.date) === month)
inMonthOf(exps, m) == SelectSeq(exps, LAMBDA e : monthKey(e.date) = m)

\* inMonth.reduce((s, e) => s + Number(e.amount || 0), 0)
totalOf(inMonth) ==
  LET acc[n \in 0..Len(inMonth)] ==
        IF n = 0 THEN Num(0)
        ELSE Plus(acc[n - 1], ToNumber(OrZero(inMonth[n].amount)))
  IN acc[Len(inMonth)]

\* obj[key] = (obj[key] || 0) + Number(e.amount), over the expenses es of one
\* key in order: a running total that is NaN (or 0) is replaced by 0
GroupTotal(es) ==
  LET acc[n \in 0..Len(es)] ==
        IF n = 0 THEN Undefined
        ELSE Plus(OrZero(acc[n - 1]), ToNumber(es[n].amount))
  IN acc[Len(es)]

\* byCat[e.category]
byCat(inMonth, category) ==
  GroupTotal(SelectSeq(inMonth, LAMBDA e : e.category = category))

\* byMerchant[e.merchant]
byMerchant(inMonth, merchant) ==
  GroupTotal(SelectSeq(inMonth, LAMBDA e : e.merchant = merchant))

\* wantsNeeds.need += Number(e.amount) / wantsNeeds.want += Number(e.amount)
wantsNeedsOf(inMonth) ==
  LET Side(need) ==
        LET es == SelectSeq(inMonth, LAMBDA e : e.need = need)
            acc[n \in 0..Len(es)] ==
              IF n = 0 THEN Num(0) ELSE Plus(acc[n - 1], ToNumber(es[n].amount))
        IN acc[Len(es)]
  IN [want |-> Side(FALSE), need |-> Side(TRUE)]

\* arr.sort((a, b) => b.amount - a.amount)
SortByAmount(arr) == SortDescending(arr, [i \in 1..Len(arr) |-> arr[i].amount])

\* Object.entries(byCat).map(...) then sort descending by amount
catArrOf(inMonth) ==
  LET keys == ObjectKeys([i \in 1..Len(inMonth) |-> inMonth[i].category])
  IN SortByAmount([i \in 1..Len(keys) |->
                    [category |-> keys[i], amount |-> byCat(inMonth, keys[i])]])

\* topMerchantsOf without its sort
topMerchantsOf_unsorted(inMonth) ==
  LET keys == ObjectKeys([i \in 1..Len(inMonth) |-> inMonth[i].merchant])
  IN Slice([i \in 1..Len(keys) |->
              [merchant |-> keys[i], amount |-> byMerchant(inMonth, keys[i])]],
           TopMerchantCount)

\* Object.entries(byMerchant).map(...).sort(...).slice(0, 5)
topMerchantsOf(inMonth) ==
  LET keys == ObjectKeys([i \in 1..Len(inMonth) |-> inMonth[i].merchant])
  IN Slice(SortByAmount([i \in 1..Len(keys) |->
                           [merchant |-> keys[i], amount |-> byMerchant(inMonth, keys[i])]]),
           TopMerchantCount)

\* budgets[c.category]: undefined for a category the map does not hold
BudgetLookup(buds, category) ==
  IF category \in DOMAIN buds THEN Num(buds[category]) ELSE Undefined

\* IsOverBudget flagging a spend that only reaches the budget
IsOverBudget_atLeast(c) == Gt(c.budget, Num(0)) /\ ~Gt(c.budget, c.amount)

\* c.budget > 0 && c.amount > c.budget
IsOverBudget(c) == Gt(c.budget, Num(0)) /\ Gt(c.amount, c.budget)

\* catArr.map(...).filter(...).sort(...)
budgetFlagsOf(catArr, buds) ==
  LET withBudget == [i \in 1..Len(catArr) |->
        LET b == ToNumber(OrZero(BudgetLookup(buds, catArr[i].category)))
        IN [category |-> catArr[i].category, amount |-> catArr[i].amount,
            budget |-> b, overBy |-> MaxZero(Minus(catArr[i].amount, b))]]
      flagged == SelectSeq(withBudget, IsOverBudget)
  IN SortDescending(flagged, [i \in 1..Len(flagged) |-> flagged[i].overBy])

\* IsSmall with amount <= 200
IsSmall_atMost(e) == ~e.need /\ IsNum(e.amount) /\ e.amount.v <= SmallAmount

\* !e.need && e.amount < 200
IsSmall(e) == ~e.need /\ IsNum(e.amount) /\ e.amount.v < SmallAmount

\* the merchants with at least 5 small discretionary purchases, with counts
smallDrainsOf(inMonth) ==
  LET smalls == SelectSeq(inMonth, IsSmall)
      keys == ObjectKeys([i \in 1..Len(smalls) |-> smalls[i].merchant])
      Count(m) == Len(SelectSeq(smalls, LAMBDA e : e.merchant = m))
      kept == SelectSeq(keys, LAMBDA m : Count(m) >= SmallDrainCount)
  IN [i \in 1..Len(kept) |-> [merchant |-> kept[i], count |-> Count(kept[i])]]

\* IsOutlier with a z-score of 2 or more
IsOutlier_atLeast(x, arr) ==
  LET n == Len(arr)
      S == SumSeq([i \in 1..n |-> arr[i].v])
      sqDev == SumSeq([i \in 1..n |-> (n * arr[i].v - S) * (n * arr[i].v - S)])
  IN /\ \A i \in 1..n : IsNum(arr[i])
     /\ sqDev > 0
     /\ n * (n * x.v - S) * (n * x.v - S) >= OutlierZ * OutlierZ * sqDev

\* sd > 0 && Math.abs((e.amount - mean) / sd) > 2 for amount x among the
\* amounts arr of its category: with n = arr.length and S their sum,
\* (x - mean)^2 = (n x - S)^2 / n^2 and sd^2 = sqDev / n^3.  Any amount that
\* is not a number makes mean and sd NaN.  When the z-score is exactly 2 the
\* rounding of the doubles decides (fpTie).
IsOutlier(x, arr) ==
  LET n == Len(arr)
      S == SumSeq([i \in 1..n |-> arr[i].v])
      sqDev == SumSeq([i \in 1..n |-> (n * arr[i].v - S) * (n * arr[i].v - S)])
      lhs == n * (n * x.v - S) * (n * x.v - S)
      rhs == OutlierZ * OutlierZ * sqDev
  IN /\ \A i \in 1..n : IsNum(arr[i])
     /\ sqDev > 0
     /\ (lhs > rhs \/ (lhs = rhs /\ fpTie))

\* for (const cat of new Set(inMonth.map((e) => e.category))) { ... }
outliersOf(inMonth) ==
  LET cats == FirstSeen([i \in 1..Len(inMonth) |-> inMonth[i].category])
      Of(cat) == SelectSeq(inMonth, LAMBDA e : e.category = cat)
      Flagged(cat) ==
        LET es == Of(cat)
            arr == [i \in 1..Len(es) |-> es[i].amount]
        IN IF Len(arr) < OutlierMinCount THEN <<>>
           ELSE SelectSeq(es, LAMBDA e : IsOutlier(e.amount, arr))
      out[n \in 0..Len(cats)] ==
        IF n = 0 THEN <<>> ELSE out[n - 1] \o Flagged(cats[n])
  IN out[Len(cats)]

\* recurringOf looking at the focus month only
recurringOf_inMonth(exps, inMonth) == detectRecurring(inMonth)

\* recurring: detectRecurring(expenses)
recurringOf(exps, inMonth) == detectRecurring(exps)

analyze(exps, buds, m) ==
  LET inMonth == inMonthOf(exps, m)
      catArr == catArrOf(inMonth)
  IN [inMonth |-> inMonth,
      total |-> totalOf(inMonth),
      catArr |-> catArr,
      topMerchants |-> topMerchantsOf(inMonth),
      wantsNeeds |-> wantsNeedsOf(inMonth),
      budgetFlags |-> budgetFlagsOf(catArr, buds),
      smallDrains |-> smallDrainsOf(inMonth),
      outliers |-> outliersOf(inMonth),
      recurring |-> recurringOf(exps, inMonth)]

----------------------------------------------------------------------------
(* suggestions: the candidates of FinanceTracker's suggestions memo.  An    *)
(* impact is held as ImpactScale times its value, so that x * 0.2, x * 0.25,*)
(* x * 0.1 and 100 * n * 0.4 are integers.  On integer amounts two impacts  *)
(* that are equal in exact arithmetic are equal as doubles too (0.1, 0.2 and*)
(* 0.4 share one significand, and a product that is an integer in exact     *)
(* arithmetic rounds to it), so the order of the scaled integers is the     *)
(* order of the doubles.                                                    *)

ImpactScale == 20

RecurringFloor == 200
MaxSuggestions == 5

\* x * (n / ImpactScale), held scaled: NaN stays NaN
Scaled(x, n) == IF IsNum(x) THEN Num(x.v * n) ELSE NaN

\* Math.min(a, b): NaN as soon as one side is NaN
MathMin(a, b) ==
  IF IsNum(a) /\ IsNum(b) THEN (IF a.v < b.v THEN a ELSE b) ELSE NaN

\* x || 1
OrOne(x) == IF x.t = "string" \/ (IsNum(x) /\ x.v # 0) THEN x ELSE Num(1)

\* ((want / (total || 1)) * 100).toFixed(0) for a want that is a number: the
\* nearest integer to the ratio, the larger one at a half; when the exact
\* ratio is a half and want / d is not exact, the double may fall below it
\* (fpTie).  A negative ratio is rounded on its absolute value.
WantPercent(want, total) ==
  LET d == OrOne(total).v
      a == IF d < 0 THEN 0 - d ELSE d
      w == IF want.v < 0 THEN 0 - want.v ELSE want.v
      q == (200 * w + a) \div (2 * a)
      r == IF (200 * w + a) % (2 * a) = 0 /\ ~IsPowerOfTwo(a) /\ fpTie
           THEN q - 1 ELSE q
  IN IF (d < 0) = (want.v < 0) THEN r ELSE 0 - r

\* if (analysis.wantsNeeds.want > 0) list.push({ title: "Trim Wants", ... })
TrimWants(a) ==
  IF Gt(a.wantsNeeds.want, Num(0))
  THEN <<[title |-> "Trim Wants", subject |-> "",
          percent |-> WantPercent(a.wantsNeeds.want, a.total),
          impact |-> Scaled(a.wantsNeeds.want, 4)]>>
  ELSE <<>>

\* OverBudget built from the last flag
OverBudget_lastFlag(a) ==
  IF Len(a.budgetFlags) > 0
  THEN LET b == a.budgetFlags[Len(a.budgetFlags)]
       IN <<[title |-> "Over Budget", subject |-> b.category, percent |-> 0,
             impact |-> MathMin(Scaled(b.overBy, ImpactScale), Scaled(b.amount, 5))]>>
  ELSE <<>>

\* if (analysis.budgetFlags.length) { const b = analysis.budgetFlags[0]; ... }
OverBudget(a) ==
  IF Len(a.budgetFlags) > 0
  THEN LET b == a.budgetFlags[1]
       IN <<[title |-> "Over Budget", subject |-> b.category, percent |-> 0,
             impact |-> MathMin(Scaled(b.overBy, ImpactScale), Scaled(b.amount, 5))]>>
  ELSE <<>>

\* if (analysis.smallDrains.length) { const s = analysis.smallDrains[0]; ... }
FrequentSmallSpends(a) ==
  IF Len(a.smallDrains) > 0
  THEN LET sd == a.smallDrains[1]
       IN <<[title |-> "Frequent small spends", subject |-> sd.merchant,
             percent |-> 0, impact |-> Num(100 * sd.count * 8)]>>
  ELSE <<>>

\* if (analysis.topMerchants[0]) { const t = analysis.topMerchants[0]; ... }
TopMerchant(a) ==
  IF Len(a.topMerchants) > 0
  THEN LET t == a.topMerchants[1]
       IN <<[title |-> "Top Merchant", subject |-> t.merchant, percent |-> 0,
             impact |-> Scaled(t.amount, 2)]>>
  ELSE <<>>

\* RecurringCharge taking the last qualifying entry
RecurringCharge_last(a) ==
  LET rec == SelectSeq(a.recurring, LAMBDA r : r.mean >= RecurringFloor)
  IN IF Len(rec) > 0
     THEN <<[title |-> "Recurring", subject |-> rec[Len(rec)].merchant, percent |-> 0,
             impact |-> Num(rec[Len(rec)].mean * ImpactScale)]>>
     ELSE <<>>

\* const rec = analysis.recurring.filter((r) => r.mean >= 200);
\* if (rec.length) { const r = rec[0]; ... }
RecurringCharge(a) ==
  LET rec == SelectSeq(a.recurring, LAMBDA r : r.mean >= RecurringFloor)
  IN IF Len(rec) > 0
     THEN <<[title |-> "Recurring", subject |-> rec[1].merchant, percent |-> 0,
             impact |-> Num(rec[1].mean * ImpactScale)]>>
     ELSE <<>>

\* the candidates in the order the memo pushes them
Candidates(a) ==
  TrimWants(a) \o OverBudget(a) \o FrequentSmallSpends(a) \o TopMerchant(a)
    \o RecurringCharge(a)

\* suggestions without its sort
suggestions_unsorted(a) == Slice(Candidates(a), MaxSuggestions)

\* list.sort((a, b) => b.impact - a.impact).slice(0, 5)
suggestions(a) ==
  LET list == Candidates(a)
  IN Slice(SortDescending(list, [i \in 1..Len(list) |-> list[i].impact]),
           MaxSuggestions)

----------------------------------------------------------------------------
(* The engine on drawn inputs: the arguments of analyze are drawn in the    *)
(* initial state and Render applies analyze to them.                        *)

\* the value of analysis between a state update and the next render
Stale == [stale |-> TRUE]

Jan15 == [y |-> 2024, m |-> 1, d |-> 15]
Feb01 == [y |-> 2024, m |-> 2, d |-> 1]
Feb15 == [y |-> 2024, m |-> 2, d |-> 15]
Mar15 == [y |-> 2024, m |-> 3, d |-> 15]

Months == {<<2024, 1>>, <<2024, 2>>}
TimeZones == {-5, 0}

\* a row of the expenses table as GET /expenses returns it (APIExpense)
\* the users of the backend
Users == {"ann", "bob"}

\* an APIExpense row of user u
OwnedExpense(t, id, u) ==
  [id |-> id, user_id |-> u, date |-> t.date, amount |-> t.amount,
   category |-> t.category, merchant |-> t.merchant, need |-> t.need]

ApiExpense(t, id) == OwnedExpense(t, id, "ann")

\* id: apiExpense.id.toString(), the other fields copied
convertAPIExpenseToFrontend(a) ==
  [id |-> ToString(a.id), date |-> a.date, amount |-> a.amount,
   category |-> a.category, merchant |-> a.merchant, need |-> a.need]

\* the Expense[] made of the fields ts, newest (highest id) first
WithIds(ts) ==
  [i \in 1..Len(ts) |-> convertAPIExpenseToFrontend(ApiExpense(ts[i], Len(ts) + 1 - i))]

\* every sequence over T of length at most n
InputsUpTo(T, n) == UNION {[1..k -> T] : k \in 0..n}

\* n copies of t
Repeat(t, n) == [i \in 1..n |-> t]

NoBudgets == [c \in {} |-> 0]

\* every budget map over a subset of the categories C with values in V
BudgetMaps(C, V) == UNION {[D -> V] : D \in SUBSET C}

\* no auth_token in localStorage / no Authorization header
NoToken == [user |-> "", n |-> 0]

\* getAuthHeaders(): Content-Type, and Authorization when
\* localStorage.getItem('auth_token') is truthy
getAuthHeaders_always(token) ==
  [k \in {"Content-Type", "Authorization"} |->
     IF k = "Content-Type" THEN <<"application/json">> ELSE <<"Bearer", token>>]

getAuthHeaders(token) ==
  [k \in {"Content-Type"} \cup (IF token # NoToken THEN {"Authorization"} ELSE {}) |->
     IF k = "Content-Type" THEN <<"application/json">> ELSE <<"Bearer", token>>]

\* the session of a signed-in user whose dashboard is on screen: granted is
\* the access_token of the last successful login that no logout followed,
\* logins counts the access tokens the backend has issued
SignedIn ==
  [token |-> [user |-> "ann", n |-> 1], isLoading |-> FALSE,
   isAuthenticated |-> TRUE, showLogin |-> TRUE, screen |-> "children",
   headers |-> getAuthHeaders([user |-> "ann", n |-> 1]),
   granted |-> [user |-> "ann", n |-> 1], logins |-> 1]

\* no DataService call has ended yet
NoCall == [op |-> "", failed |-> FALSE, threw |-> FALSE, value |-> <<>>]

\* the FinanceTracker and DataService with nothing loaded and nothing pending
AppAtRest ==
  /\ server = <<>>
  /\ serverBudgets = <<>>
  /\ cache = <<>>
  /\ aliased = FALSE
  /\ inflight = {}
  /\ isLoading = FALSE
  /\ nextId = 1
  /\ session = SignedIn
  /\ call = NoCall

\* ArgumentsAfter with the transaction list sorted where it stands, as
\* expenses.sort((a, b) => b.amount - a.amount) would leave it
ArgumentsAfter_sortedInPlace(exps, buds) ==
  [expenses |-> SortDescending(exps, [i \in 1..Len(exps) |-> exps[i].amount]),
   budgets |-> buds]

\* The arguments as a call of analyze leaves them.  Each writing operation of
\* analyze and detectRecurring has a target the call itself created: push on
\* byMerchant[m][mk], rec and outliers; sort on Object.keys(months), rec,
\* catArr and on the arrays map and filter return; += on byCat, byMerchant,
\* wantsNeeds and byMerchantSmall.  expenses, its records and budgets are only
\* read (for..of, filter, map, reduce, property reads).
ArgumentsAfter(exps, buds) ==
  [expenses |-> exps, budgets |-> buds]

\* const analysis = useMemo(() => analyze(data.expenses, data.budgets, month), ...)
Render ==
  /\ analysis = Stale
  /\ analysis' = analyze(expenses, budgets, month)
  /\ expenses' = ArgumentsAfter(expenses, budgets).expenses
  /\ budgets' = ArgumentsAfter(expenses, budgets).budgets
  /\ UNCHANGED <<month, tz, fpTie, appVars, sessionVars>>

----------------------------------------------------------------------------
(* Spec: short histories over categories, amounts and months *)

MaxLen == 3

Categories == {"Dining", "2024"}

Txns == [date : {Jan15, Feb01}, amount : {Num(100), Num(300)},
         category : Categories, merchant : {"Swiggy"}, need : {FALSE}]

Init ==
  /\ expenses \in {WithIds(ts) : ts \in InputsUpTo(Txns, MaxLen)}
  /\ budgets = NoBudgets
  /\ month \in Months
  /\ tz \in TimeZones
  /\ fpTie \in BOOLEAN
  /\ analysis = Stale
  /\ AppAtRest

Next == Render

Spec == Init /\ [][Next]_vars

----------------------------------------------------------------------------
(* SpecRaw: histories whose amounts may be NaN, absent or non-numeric *)

MaxRawLen == 2

RawTxns == [date : {Jan15, Feb15},
            amount : {Num(100), NaN, Undefined, NonNumericString},
            category : {"Dining", "Rent"}, merchant : {"Swiggy", "Zomato"},
            need : BOOLEAN]

InitRaw ==
  /\ expenses \in {WithIds(ts) : ts \in InputsUpTo(RawTxns, MaxRawLen)}
  /\ budgets = NoBudgets
  /\ month \in Months
  /\ tz = 0
  /\ fpTie \in BOOLEAN
  /\ analysis = Stale
  /\ AppAtRest

NextRaw == Render

SpecRaw == InitRaw /\ [][NextRaw]_vars

----------------------------------------------------------------------------
(* SpecBudget: spend per category against a budget map *)

MaxBudgetLen == 4

BudgetCategories == {"Dining", "Rent"}
BudgetValues == {0, 20, 250, 300}

BudgetTxns == [date : {Feb15}, amount : {Num(100), Num(300)},
               category : BudgetCategories, merchant : {"Swiggy"}, need : {TRUE}]

InitBudget ==
  /\ expenses \in {WithIds(ts) : ts \in InputsUpTo(BudgetTxns, MaxBudgetLen)}
  /\ budgets \in BudgetMaps(BudgetCategories, BudgetValues)
  /\ month = <<2024, 2>>
  /\ tz = 0
  /\ fpTie \in BOOLEAN
  /\ analysis = Stale
  /\ AppAtRest

NextBudget == Render

SpecBudget == InitBudget /\ [][NextBudget]_vars

----------------------------------------------------------------------------
(* SpecRecurring: merchants charged in one or several months *)

MaxRecurringLen == 3

RecurringMerchants == {"Netflix", "365"}
RecurringTxns == [date : {Jan15, Feb01},
                  amount : {Num(0), Num(100), Num(150)},
                  category : {"Entertainment"}, merchant : RecurringMerchants,
                  need : {FALSE}]

InitRecurring ==
  /\ expenses \in {WithIds(ts) : ts \in InputsUpTo(RecurringTxns, MaxRecurringLen)}
  /\ budgets = NoBudgets
  /\ month = <<2024, 3>>
  /\ tz \in TimeZones
  /\ fpTie \in BOOLEAN
  /\ analysis = Stale
  /\ AppAtRest

NextRecurring == Render

SpecRecurring == InitRecurring /\ [][NextRecurring]_vars

----------------------------------------------------------------------------
(* SpecOutlier: categories with enough transactions for the outlier test *)

MaxOutlierLen == 3

Txn(date, amount, category, merchant) ==
  [date |-> date, amount |-> Num(amount), category |-> category,
   merchant |-> merchant, need |-> FALSE]

OutlierTxns == {Txn(Feb15, 10, "Dining", "Swiggy"), Txn(Feb15, 30, "Dining", "Swiggy"),
                Txn(Feb15, 30, "Rent", "Swiggy"), Txn(Jan15, 30, "Dining", "Swiggy")}

\* the month's usual charges: dn of 10 in Dining, then rn of 10 in Rent
OutlierBase(dn, rn) ==
  Repeat(Txn(Feb15, 10, "Dining", "Swiggy"), dn)
    \o Repeat(Txn(Feb15, 10, "Rent", "Swiggy"), rn)

InitOutlier ==
  /\ expenses \in {WithIds(ts \o OutlierBase(dn, rn)) :
                     ts \in InputsUpTo(OutlierTxns, MaxOutlierLen),
                     dn \in {0, 4, 5, 9}, rn \in {0, 5}}
  /\ budgets = NoBudgets
  /\ month = <<2024, 2>>
  /\ tz = 0
  /\ fpTie \in BOOLEAN
  /\ analysis = Stale
  /\ AppAtRest

NextOutlier == Render

SpecOutlier == InitOutlier /\ [][NextOutlier]_vars

----------------------------------------------------------------------------
(* SpecMerchant: months with more merchants than the top list holds *)

MaxMerchantLen == 3

MerchantTxns == {Txn(Feb15, 50, "Shopping", "Ola"), Txn(Feb15, 100, "Shopping", "365"),
                 Txn(Feb15, 300, "Shopping", "365"), Txn(Feb15, 100, "Shopping", "Amazon"),
                 Txn(Jan15, 300, "Shopping", "Ola")}

MerchantBases ==
  {<<>>,
   <<Txn(Feb15, 100, "Dining", "Swiggy"), Txn(Feb15, 300, "Dining", "Zomato"),
     Txn(Feb15, 100, "Shopping", "Amazon"), Txn(Feb15, 200, "Transport", "Uber")>>,
   <<Txn(Feb15, 100, "Dining", "Swiggy"), Txn(Feb15, 300, "Dining", "Zomato"),
     Txn(Feb15, 100, "Shopping", "Amazon"), Txn(Feb15, 200, "Transport", "Uber"),
     Txn(Feb15, 200, "Entertainment", "Netflix")>>}

InitMerchant ==
  /\ expenses \in {WithIds(ts \o base) :
                     ts \in InputsUpTo(MerchantTxns, MaxMerchantLen),
                     base \in MerchantBases}
  /\ budgets = NoBudgets
  /\ month = <<2024, 2>>
  /\ tz = 0
  /\ fpTie \in BOOLEAN
  /\ analysis = Stale
  /\ AppAtRest

NextMerchant == Render

SpecMerchant == InitMerchant /\ [][NextMerchant]_vars

----------------------------------------------------------------------------
(* SpecDrain: merchants with several small discretionary purchases *)

MaxDrainLen == 3

DrainMerchants == {"Swiggy", "365", "Ola"}

\* the expense t marked as a need
AsNeed(t) == [t EXCEPT !.need = TRUE]

DrainTxns == {Txn(Feb15, 50, "Dining", "Swiggy"), Txn(Feb15, 199, "Dining", "365"),
              Txn(Feb15, 200, "Dining", "365"), AsNeed(Txn(Feb15, 50, "Dining", "Swiggy")),
              Txn(Jan15, 50, "Dining", "Ola")}

\* the month's usual purchases: sn of 50 at Swiggy, then dn of 50 at 365
DrainBase(sn, dn) ==
  Repeat(Txn(Feb15, 50, "Dining", "Swiggy"), sn)
    \o Repeat(Txn(Feb15, 50, "Dining", "365"), dn)

InitDrain ==
  /\ expenses \in {WithIds(ts \o DrainBase(sn, dn)) :
                     ts \in InputsUpTo(DrainTxns, MaxDrainLen),
                     sn \in {0, 4, 5}, dn \in {0, 4}}
  /\ budgets = NoBudgets
  /\ month \in Months
  /\ tz = 0
  /\ fpTie \in BOOLEAN
  /\ analysis = Stale
  /\ AppAtRest

NextDrain == Render

SpecDrain == InitDrain /\ [][NextDrain]_vars

----------------------------------------------------------------------------
(* SpecMean: merchants charged in up to three months *)

MaxMeanLen == 3

MeanMerchants == {"Netflix", "365"}

MeanTxns == {Txn(Mar15, 999, "Entertainment", "Netflix"),
             Txn(Feb15, 1000, "Entertainment", "Netflix"),
             Txn(Jan15, 200, "Entertainment", "365"),
             Txn(Feb15, 200, "Entertainment", "365"),
             Txn(Feb15, 203, "Entertainment", "365")}

MeanBases ==
  {<<>>,
   <<Txn(Jan15, 999, "Entertainment", "Netflix")>>,
   <<Txn(Feb15, 999, "Entertainment", "Netflix"),
     Txn(Jan15, 999, "Entertainment", "Netflix")>>,
   <<Txn(Feb15, 200, "Entertainment", "365"), Txn(Feb15, 200, "Entertainment", "365"),
     Txn(Jan15, 200, "Entertainment", "365")>>}

InitMean ==
  /\ expenses \in {WithIds(ts \o base) :
                     ts \in InputsUpTo(MeanTxns, MaxMeanLen), base \in MeanBases}
  /\ budgets = NoBudgets
  /\ month \in Months
  /\ tz = 0
  /\ fpTie \in BOOLEAN
  /\ analysis = Stale
  /\ AppAtRest

NextMean == Render

SpecMean == InitMean /\ [][NextMean]_vars

----------------------------------------------------------------------------
(* SpecDup: merchants charged once or several times within a month *)

MaxDupLen == 3

DupMerchants == {"Netflix", "Spotify"}

DupTxns == [date : {Jan15, Feb15}, amount : {Num(100), Num(150)},
            category : {"Entertainment"}, merchant : DupMerchants, need : {FALSE}]

InitDup ==
  /\ expenses \in {WithIds(ts) : ts \in InputsUpTo(DupTxns, MaxDupLen)}
  /\ budgets = NoBudgets
  /\ month = <<2024, 2>>
  /\ tz = 0
  /\ fpTie \in BOOLEAN
  /\ analysis = Stale
  /\ AppAtRest

NextDup == Render

SpecDup == InitDup /\ [][NextDup]_vars

----------------------------------------------------------------------------
(* SpecZero: merchants with free charges and refunds *)

MaxZeroLen == 3

ZeroMerchants == {"Netflix", "Spotify"}

ZeroTxns == [date : {Jan15, Feb15}, amount : {Num(-100), Num(0), Num(100)},
             category : {"Entertainment"}, merchant : ZeroMerchants, need : {FALSE}]

InitZero ==
  /\ expenses \in {WithIds(ts) : ts \in InputsUpTo(ZeroTxns, MaxZeroLen)}
  /\ budgets = NoBudgets
  /\ month = <<2024, 2>>
  /\ tz = 0
  /\ fpTie \in BOOLEAN
  /\ analysis = Stale
  /\ AppAtRest

NextZero == Render

SpecZero == InitZero /\ [][NextZero]_vars

----------------------------------------------------------------------------
(* SpecSuggest: months in which up to all five suggestions are due *)

MaxSuggestLen == 3

SuggestTxns == {Txn(Feb15, 200, "Entertainment", "Netflix"),
                AsNeed(Txn(Feb15, 800, "Rent", "Landlord")),
                AsNeed(Txn(Feb15, 2000, "Rent", "Landlord")),
                Txn(Feb15, 40, "Dining", "Swiggy"),
                Txn(Feb15, 800, "Shopping", "Zara")}

\* what is on file already: rn charges of Netflix in January, then sn small
\* purchases of 40 at Swiggy in February
SuggestBase(rn, sn) ==
  Repeat(Txn(Jan15, 200, "Entertainment", "Netflix"), rn)
    \o Repeat(Txn(Feb15, 40, "Dining", "Swiggy"), sn)

InitSuggest ==
  /\ expenses \in {WithIds(SuggestBase(rn, sn) \o ts) :
                     ts \in InputsUpTo(SuggestTxns, MaxSuggestLen),
                     rn \in {0, 1}, sn \in {0, 5}}
  /\ budgets \in BudgetMaps({"Rent"}, {0, 600, 700})
  /\ month = <<2024, 2>>
  /\ tz = 0
  /\ fpTie \in BOOLEAN
  /\ analysis = Stale
  /\ AppAtRest

NextSuggest == Render

SpecSuggest == InitSuggest /\ [][NextSuggest]_vars

----------------------------------------------------------------------------
(* SpecCharge: recurring charges around the floor of 200 *)

MaxChargeLen == 3

ChargeTxns == {Txn(Feb15, 200, "Entertainment", "Netflix"),
               Txn(Feb15, 250, "Entertainment", "Netflix"),
               Txn(Feb15, 150, "Health", "Gym"),
               Txn(Feb15, 199, "Health", "Gym"),
               Txn(Feb15, 200, "Health", "Gym")}

\* January's charges: gn of 200 at the Gym, then rn of 250 at Netflix
ChargeBase(gn, rn) ==
  Repeat(Txn(Jan15, 200, "Health", "Gym"), gn)
    \o Repeat(Txn(Jan15, 250, "Entertainment", "Netflix"), rn)

InitCharge ==
  /\ expenses \in {WithIds(ChargeBase(gn, rn) \o ts) :
                     ts \in InputsUpTo(ChargeTxns, MaxChargeLen),
                     gn \in {0, 1}, rn \in {0, 1}}
  /\ budgets = NoBudgets
  /\ month = <<2024, 2>>
  /\ tz = 0
  /\ fpTie \in BOOLEAN
  /\ analysis = Stale
  /\ AppAtRest

NextCharge == Render

SpecCharge == InitCharge /\ [][NextCharge]_vars

----------------------------------------------------------------------------
(* SpecApp: the FinanceTracker component over the DataService and backend   *)

MaxAppId == 3
MaxInflight == 2
MaxServerLen == 2

AppTxns == {Txn(Jan15, 100, "Entertainment", "Netflix"),
            Txn(Feb15, 100, "Entertainment", "Netflix")}

AppBudgetValues == {0, 250}

\* a subset of DataService.categories, each with a default budget of 0
DefaultCategories == {"Entertainment", "Rent"}

\* "YYYY-MM" of a stored date
ServerMonthOf(date) == <<date.y, date.m>>

\* GET /expenses/?month=m for a request r of the month input: the user's
\* rows of month m; GET /expenses/ for a request of loadData: every row
ServerExpenses(r) ==
  IF r.kind = "load" THEN server
  ELSE SelectSeq(server, LAMBDA a : ServerMonthOf(a.date) = r.month)

\* expensesAPI.getAll(filters) mapped through convertAPIExpenseToFrontend
FetchExpenses(r) ==
  LET rows == ServerExpenses(r)
  IN [i \in 1..Len(rows) |-> convertAPIExpenseToFrontend(rows[i])]

\* GET /budgets/?month=m: the rows of month m
ServerBudgetsOf(m) == SelectSeq(serverBudgets, LAMBDA b : b.month = m)

\* DataService.getBudgets(m): 0 for every default category, then
\* apiBudgets.forEach(budget => { this.budgets[budget.category] = budget.amount }),
\* so that of two rows of a category the later one stays
FetchBudgets(m) ==
  LET rows == ServerBudgetsOf(m)
      Last(c) == CHOOSE i \in 1..Len(rows) :
                   /\ rows[i].category = c
                   /\ \A j \in 1..Len(rows) : rows[j].category = c => j <= i
  IN [c \in DefaultCategories \cup {rows[i].category : i \in 1..Len(rows)} |->
        IF \E i \in 1..Len(rows) : rows[i].category = c
        THEN rows[Last(c)].amount ELSE 0]

\* POST /budgets/: a new row, with the next id of the table
CreateBudget(rows, cat, amount, m) ==
  Append(rows, [id |-> Len(rows) + 1, category |-> cat, amount |-> amount, month |-> m])

\* PUT /budgets/{id}: the row's amount is replaced
UpdateBudget(rows, id, amount) ==
  [i \in 1..Len(rows) |->
     IF rows[i].id = id THEN [rows[i] EXCEPT !.amount = amount] ELSE rows[i]]

\* existingBudgets.find(b => b.category === category): the id of the first
\* row of the category among rows, 0 when there is none
FindBudget(rows, cat) ==
  IF \E i \in 1..Len(rows) : rows[i].category = cat
  THEN rows[CHOOSE i \in 1..Len(rows) :
              /\ rows[i].category = cat
              /\ \A j \in 1..Len(rows) : rows[j].category = cat => i <= j].id
  ELSE 0

\* parseInt(id)
parseInt(id) == CHOOSE n \in 1..(MaxAppId + 1) : ToString(n) = id

\* useEffect(() => { loadData() }, []) up to its awaits: the requests of
\* the first load are out, the spinner shows
InitApp ==
  /\ expenses = <<>>
  /\ budgets = NoBudgets
  /\ month \in Months
  /\ tz = 0
  /\ fpTie \in BOOLEAN
  /\ analysis = Stale
  /\ server \in {[i \in 1..Len(ts) |-> ApiExpense(ts[i], Len(ts) + 1 - i)] :
                   ts \in InputsUpTo(AppTxns, MaxServerLen)}
  /\ serverBudgets = <<>>
  /\ cache = <<>>
  /\ aliased = FALSE
  /\ inflight = {[kind |-> "load", month |-> month]}
  /\ isLoading = TRUE
  /\ nextId = Len(server) + 1
  /\ session = SignedIn
  /\ call = NoCall

\* loadData after its awaits: getExpenses() stores the rows in the cache and
\* returns the cache array itself, which setData puts into data.expenses
LoadDataDone(r) ==
  /\ r \in inflight
  /\ r.kind = "load"
  /\ cache' = FetchExpenses(r)
  /\ expenses' = cache'
  /\ aliased' = TRUE
  /\ budgets' = FetchBudgets(r.month)
  /\ isLoading' = FALSE
  /\ inflight' = inflight \ {r}
  /\ analysis' = Stale
  /\ UNCHANGED <<month, tz, fpTie, server, serverBudgets, nextId, sessionVars>>

\* the month input's onChange up to its awaits: setMonth(newMonth) and the
\* requests getExpenses({ month: newMonth }), getBudgets(newMonth)
ChangeMonth(m) ==
  /\ ~isLoading
  /\ Cardinality(inflight) < MaxInflight
  /\ month' = m
  /\ inflight' = inflight \cup {[kind |-> "month", month |-> m]}
  /\ analysis' = Stale
  /\ UNCHANGED <<expenses, budgets, tz, fpTie, server, serverBudgets, cache,
                 aliased, isLoading, nextId,
                 sessionVars>>

\* the month input's onChange after its awaits:
\* setData(prev => ({ ...prev, expenses, budgets }))
MonthDataDone(r) ==
  /\ r \in inflight
  /\ r.kind = "month"
  /\ cache' = FetchExpenses(r)
  /\ expenses' = cache'
  /\ aliased' = TRUE
  /\ budgets' = FetchBudgets(r.month)
  /\ inflight' = inflight \ {r}
  /\ analysis' = Stale
  /\ UNCHANGED <<month, tz, fpTie, server, serverBudgets, isLoading, nextId, sessionVars>>

\* addExpense: the backend stores the row, DataService unshifts it into its
\* cache array, and setData prepends it to prev.expenses, which is that
\* same array as long as data.expenses and the cache are aliased
AddExpense(t) ==
  /\ ~isLoading
  /\ nextId <= MaxAppId
  /\ LET newExpense == convertAPIExpenseToFrontend(ApiExpense(t, nextId))
     IN /\ server' = <<ApiExpense(t, nextId)>> \o server
        /\ cache' = <<newExpense>> \o cache
        /\ expenses' = <<newExpense>> \o (IF aliased THEN cache' ELSE expenses)
  /\ aliased' = FALSE
  /\ nextId' = nextId + 1
  /\ analysis' = Stale
  /\ UNCHANGED <<budgets, month, tz, fpTie, serverBudgets, inflight, isLoading, sessionVars>>

\* deleteExpense: the backend drops the row, the cache and data.expenses
\* become filtered copies
DeleteExpense(id) ==
  /\ ~isLoading
  /\ \E i \in 1..Len(expenses) : expenses[i].id = id
  /\ server' = SelectSeq(server, LAMBDA a : a.id # parseInt(id))
  /\ cache' = SelectSeq(cache, LAMBDA e : e.id # id)
  /\ expenses' = SelectSeq(expenses, LAMBDA e : e.id # id)
  /\ aliased' = FALSE
  /\ analysis' = Stale
  /\ UNCHANGED <<budgets, month, tz, fpTie, serverBudgets, inflight, isLoading, nextId, sessionVars>>

\* importCSV of a file with the one row t: the backend stores the row,
\* DataService refreshes its cache with getExpenses(), then loadData runs
ImportCSV(t) ==
  /\ ~isLoading
  /\ nextId <= MaxAppId
  /\ server' = <<ApiExpense(t, nextId)>> \o server
  /\ nextId' = nextId + 1
  /\ cache' = [i \in 1..Len(server') |-> convertAPIExpenseToFrontend(server'[i])]
  /\ expenses' = cache'
  /\ aliased' = TRUE
  /\ budgets' = FetchBudgets(month)
  /\ analysis' = Stale
  /\ UNCHANGED <<month, tz, fpTie, serverBudgets, inflight, isLoading, sessionVars>>

\* setBudget: the backend's budget of (month, cat) is updated or created,
\* then setData(prev => ({ ...prev, budgets: { ...prev.budgets, [cat]: amount } }))
SetBudget(cat, amount) ==
  /\ ~isLoading
  /\ serverBudgets' =
       LET existing == FindBudget(ServerBudgetsOf(month), cat)
       IN IF existing # 0 THEN UpdateBudget(serverBudgets, existing, amount)
          ELSE CreateBudget(serverBudgets, cat, amount, month)
  /\ budgets' = [c \in DOMAIN budgets \cup {cat} |->
                   IF c = cat THEN amount ELSE budgets[c]]
  /\ analysis' = Stale
  /\ UNCHANGED <<expenses, month, tz, fpTie, server, cache, aliased, inflight,
                 isLoading, nextId,
                 sessionVars>>

NextApp ==
  \/ \E r \in inflight : LoadDataDone(r)
  \/ \E m \in Months : ChangeMonth(m)
  \/ \E r \in inflight : MonthDataDone(r)
  \/ \E t \in AppTxns : AddExpense(t)
  \/ \E i \in 1..MaxAppId : DeleteExpense(ToString(i))
  \/ \E t \in AppTxns : ImportCSV(t)
  \/ \E v \in AppBudgetValues : SetBudget("Entertainment", v)
  \/ Render

SpecApp == InitApp /\ [][NextApp]_vars

----------------------------------------------------------------------------
(* Properties of analyze *)

Rendered == analysis # Stale

\* s without its i-th element
RemoveAt(s, i) == SubSeq(s, 1, i - 1) \o SubSeq(s, i + 1, Len(s))

\* the positions of the expenses of the focus month
FocusPositions == {i \in 1..Len(expenses) : monthKey(expenses[i].date) = month}

\* the j-th smallest position of P
NthOf(P, j) == CHOOSE i \in P : Cardinality({k \in P : k <= i}) = j

\* everything analyze derives from the month's expenses
MonthAggregates(a) ==
  <<a.total, a.catArr, a.topMerchants, a.wantsNeeds, a.budgetFlags,
    a.smallDrains, a.outliers>>

\* C1: inMonth is exactly the expenses whose month key is the focus month, in
\* input order, and no month aggregate changes when an expense of another
\* month is taken out of (equivalently, put into) the input.
C1_FilterCorrect ==
  Rendered =>
    /\ Len(analysis.inMonth) = Cardinality(FocusPositions)
    /\ \A j \in 1..Len(analysis.inMonth) :
         analysis.inMonth[j] = expenses[NthOf(FocusPositions, j)]
    /\ \A i \in (1..Len(expenses)) \ FocusPositions :
         MonthAggregates(analyze(RemoveAt(expenses, i), budgets, month))
           = MonthAggregates(analysis)

\* C1 witness: a rendered history that mixes the focus month with another one
C1_Witness ==
  /\ Rendered
  /\ Len(analysis.inMonth) = 2
  /\ Len(expenses) = 3
  /\ monthKey(expenses[2].date) # month
  /\ analysis.total = Num(400)

\* the sum of the JavaScript numbers of a sequence (NaN as soon as one is NaN)
SumJs(xs) ==
  LET acc[n \in 0..Len(xs)] == IF n = 0 THEN Num(0) ELSE Plus(acc[n - 1], xs[n])
  IN acc[Len(xs)]

\* C2: total is the sum of the category totals and is need + want.
C2_TotalConsistent ==
  Rendered =>
    /\ analysis.total
         = SumJs([i \in 1..Len(analysis.catArr) |-> analysis.catArr[i].amount])
    /\ analysis.total = Plus(analysis.wantsNeeds.need, analysis.wantsNeeds.want)

\* an amount with everything that is not a number read as 0
AsZero(x) == IF IsNum(x) THEN x.v ELSE 0

\* the sum of the amounts of the expenses es, non-numbers read as 0
ZeroSum(es) == Num(SumSeq([i \in 1..Len(es) |-> AsZero(es[i].amount)]))

\* the month's expenses of category c / at merchant m / with need flag n
OfCategory(c) == SelectSeq(analysis.inMonth, LAMBDA e : e.category = c)
AtMerchant(m) == SelectSeq(analysis.inMonth, LAMBDA e : e.merchant = m)
WithNeed(n) == SelectSeq(analysis.inMonth, LAMBDA e : e.need = n)

\* C8: an amount that is not a number contributes 0 to the total, to the
\* category totals, to the merchant totals and to the need / want totals.
C8_NonNumericIsZero ==
  Rendered =>
    /\ analysis.total = ZeroSum(analysis.inMonth)
    /\ \A i \in 1..Len(analysis.catArr) :
         analysis.catArr[i].amount = ZeroSum(OfCategory(analysis.catArr[i].category))
    /\ \A i \in 1..Len(analysis.topMerchants) :
         analysis.topMerchants[i].amount
           = ZeroSum(AtMerchant(analysis.topMerchants[i].merchant))
    /\ analysis.wantsNeeds.need = ZeroSum(WithNeed(TRUE))
    /\ analysis.wantsNeeds.want = ZeroSum(WithNeed(FALSE))

\* the position in inMonth of the first expense of a category
FirstOfCategory(c) ==
  CHOOSE i \in 1..Len(analysis.inMonth) :
    /\ analysis.inMonth[i].category = c
    /\ \A j \in 1..(i - 1) : analysis.inMonth[j].category # c

\* C9: catArr has one entry per category of the month, carrying the sum of
\* the category's amounts, non-increasing by amount, with equal totals in the
\* order in which the categories were first met in inMonth.
C9_CategoryTotals ==
  Rendered =>
    LET arr == analysis.catArr
        cats == {analysis.inMonth[i].category : i \in 1..Len(analysis.inMonth)}
    IN /\ Len(arr) = Cardinality(cats)
       /\ {arr[i].category : i \in 1..Len(arr)} = cats
       /\ \A i \in 1..Len(arr) :
            arr[i].amount = ZeroSum(OfCategory(arr[i].category))
       /\ \A i, j \in 1..Len(arr) :
            i < j =>
              /\ arr[i].amount.v >= arr[j].amount.v
              /\ arr[i].amount.v = arr[j].amount.v
                   => FirstOfCategory(arr[i].category) < FirstOfCategory(arr[j].category)

\* the in-month spend of a category
SpendOf(c) ==
  LET es == SelectSeq(analysis.inMonth, LAMBDA e : e.category = c)
  IN SumSeq([i \in 1..Len(es) |-> es[i].amount.v])

\* C3: a category is flagged iff its budget is positive and its in-month
\* spend exceeds it; a flag carries the spend, the budget and their
\* difference; flags are non-increasing by overBy; no budget, a budget of 0
\* or a spend equal to the budget give no flag.
C3_BudgetFlags ==
  Rendered =>
    LET flags == analysis.budgetFlags
    IN /\ \A c \in BudgetCategories :
            (\E i \in 1..Len(flags) : flags[i].category = c)
              <=> (c \in DOMAIN budgets /\ budgets[c] > 0 /\ SpendOf(c) > budgets[c])
       /\ \A i, j \in 1..Len(flags) : flags[i].category = flags[j].category => i = j
       /\ \A i \in 1..Len(flags) :
            /\ flags[i].category \in BudgetCategories
            /\ flags[i].amount = Num(SpendOf(flags[i].category))
            /\ flags[i].budget = Num(budgets[flags[i].category])
            /\ flags[i].overBy
                 = Num(SpendOf(flags[i].category) - budgets[flags[i].category])
       /\ \A i, j \in 1..Len(flags) : i < j => flags[i].overBy.v >= flags[j].overBy.v

\* C3 witness: two categories over budget, the smaller spend over by more,
\* beside states where a spend equals its budget
C3_Witness ==
  /\ Rendered
  /\ Len(analysis.budgetFlags) = 2
  /\ analysis.budgetFlags[1].category # analysis.catArr[1].category
  /\ analysis.budgetFlags[1].overBy.v > analysis.budgetFlags[2].overBy.v

\* the per-month averages of merchant m, each times the number of charges of
\* every month of m (a common denominator)
MonthAverages(m) ==
  LET es == SelectSeq(expenses, LAMBDA e : e.merchant = m)
      mks == {monthKey(es[i].date) : i \in 1..Len(es)}
      In(mk) == SelectSeq(es, LAMBDA e : monthKey(e.date) = mk)
      scale[S \in SUBSET mks] ==
        IF S = {} THEN 1
        ELSE LET mk == CHOOSE x \in S : TRUE IN Len(In(mk)) * scale[S \ {mk}]
      Avg(mk) == SumSeq([i \in 1..Len(In(mk)) |-> In(mk)[i].amount.v])
                   * scale[mks \ {mk}]
  IN [mks |-> mks, avg |-> [mk \in mks |-> Avg(mk)]]

\* stdev < 0.2 * mean over the averages a: with k averages of sum T and sum
\* of squares Q, variance = Q / k - (T / k)^2, so the test is T > 0 and
\* 25 * (k * Q - T^2) < T^2; at equality the doubles decide
LowVariance(a) ==
  LET k == Cardinality(a.mks)
      T == SumFn(a.avg)
      Q == SumFn([mk \in a.mks |-> a.avg[mk] * a.avg[mk]])
  IN /\ T > 0
     /\ \/ 25 * (k * Q - T * T) < T * T
        \/ 25 * (k * Q - T * T) = T * T /\ fpTie

C6_RecurringFullHistory ==
  Rendered =>
    /\ analysis.recurring = detectRecurring(expenses)
    /\ \A m \in Months :
         analyze(expenses, budgets, m).recurring = analysis.recurring

\* C6 witness: a merchant is reported while the focus month holds no expense
C6_Witness ==
  /\ Rendered
  /\ analysis.inMonth = <<>>
  /\ Len(analysis.recurring) = 1

\* the position in inMonth of the expense e (ids are unique)
PositionOf(e) == CHOOSE p \in 1..Len(analysis.inMonth) : analysis.inMonth[p].id = e.id

\* the outlier rule for the expense at position p of inMonth, from the count
\* n, the sum S and the sum of squares Q of its category's in-month amounts:
\* sd^2 = (n Q - S^2) / n^2 and (x - mean)^2 = (n x - S)^2 / n^2
Deviates(p) ==
  LET e == analysis.inMonth[p]
      es == SelectSeq(analysis.inMonth, LAMBDA o : o.category = e.category)
      n == Len(es)
      S == SumSeq([i \in 1..n |-> es[i].amount.v])
      Q == SumSeq([i \in 1..n |-> es[i].amount.v * es[i].amount.v])
      d == (n * e.amount.v - S) * (n * e.amount.v - S)
  IN /\ n >= 3
     /\ n * Q - S * S > 0
     /\ \/ d > 4 * (n * Q - S * S)
        \/ d = 4 * (n * Q - S * S) /\ fpTie

MerchantSpend(m) ==
  LET es == SelectSeq(analysis.inMonth, LAMBDA e : e.merchant = m)
  IN SumSeq([i \in 1..Len(es) |-> es[i].amount.v])

\* the merchants of the month
MonthMerchants == {analysis.inMonth[i].merchant : i \in 1..Len(analysis.inMonth)}

\* the merchants of topMerchants
Listed == {analysis.topMerchants[i].merchant : i \in 1..Len(analysis.topMerchants)}

\* C10: topMerchants has min(5, number of merchants of the month) entries,
\* is non-increasing by amount, carries each listed merchant's in-month sum,
\* and no merchant left out has a larger sum than a listed one.
C10_TopMerchants ==
  Rendered =>
    LET top == analysis.topMerchants
    IN /\ Len(top) = IF Cardinality(MonthMerchants) < 5
                     THEN Cardinality(MonthMerchants) ELSE 5
       /\ Listed \subseteq MonthMerchants
       /\ Cardinality(Listed) = Len(top)
       /\ \A i \in 1..Len(top) : top[i].amount = Num(MerchantSpend(top[i].merchant))
       /\ \A i, j \in 1..Len(top) : i < j => top[i].amount.v >= top[j].amount.v
       /\ \A m \in MonthMerchants \ Listed :
            \A i \in 1..Len(top) : MerchantSpend(m) <= top[i].amount.v

\* C10 witness: seven merchants in the month, one left out with as much as
\* the last listed one and one left out with less
C10_Witness ==
  /\ Rendered
  /\ Cardinality(MonthMerchants) = 7
  /\ Len(analysis.topMerchants) = 5
  /\ analysis.topMerchants[1].amount.v > analysis.topMerchants[5].amount.v
  /\ \E m \in MonthMerchants \ Listed :
       MerchantSpend(m) = analysis.topMerchants[5].amount.v
  /\ \E m \in MonthMerchants \ Listed :
       MerchantSpend(m) < analysis.topMerchants[5].amount.v

----------------------------------------------------------------------------
(* Properties of the FinanceTracker component *)

\* the ids of a collection of expenses or rows
IdsOf(s) == {s[i].id : i \in 1..Len(s)}

\* the ids, as the frontend writes them, of the user's whole history
HistoryIds == {ToString(server[i].id) : i \in 1..Len(server)}

\* C7: once the first load is done and no request is pending, the collection
\* passed to analyze holds the user's whole history, whatever the month.
C7_FullHistory ==
  (Rendered /\ ~isLoading /\ inflight = {}) => IdsOf(expenses) = HistoryIds

----------------------------------------------------------------------------
(* Properties of analyze: small drains *)

\* the number of in-month purchases at merchant m that are wants below 200
SmallCount(m) ==
  Cardinality({i \in 1..Len(analysis.inMonth) :
                 /\ analysis.inMonth[i].merchant = m
                 /\ analysis.inMonth[i].need = FALSE
                 /\ analysis.inMonth[i].amount.v < 200})

\* C11: smallDrains holds {merchant m, count n} iff n is the number of
\* in-month transactions of m with need = false and amount < 200 and
\* n >= 5; each such merchant appears once; needs, amounts of 200 or more
\* and merchants with only 4 such transactions are left out.
C11_SmallDrains ==
  Rendered =>
    LET sd == analysis.smallDrains
    IN /\ \A m \in DrainMerchants :
            (\E i \in 1..Len(sd) : sd[i].merchant = m) <=> SmallCount(m) >= 5
       /\ \A i \in 1..Len(sd) :
            /\ sd[i].merchant \in DrainMerchants
            /\ sd[i].count = SmallCount(sd[i].merchant)
       /\ \A i, j \in 1..Len(sd) : sd[i].merchant = sd[j].merchant => i = j

\* C11 witness: one merchant is reported with 6 small wants beside a need;
\* another has 4 small wants and a purchase of exactly 200 and is left out
C11_Witness ==
  /\ Rendered
  /\ Len(analysis.smallDrains) = 1
  /\ analysis.smallDrains[1] = [merchant |-> "Swiggy", count |-> 6]
  /\ Len(AtMerchant("Swiggy")) = 7
  /\ SmallCount("365") = 4
  /\ Len(AtMerchant("365")) = 5

----------------------------------------------------------------------------
(* Properties of detectRecurring: the reported entries *)

\* the product of the numbers of charges of merchant m in each of its months:
\* the denominator of MonthAverages(m)
CountProduct(m) ==
  LET es == SelectSeq(expenses, LAMBDA e : e.merchant = m)
      mks == {monthKey(es[i].date) : i \in 1..Len(es)}
      prod[S \in SUBSET mks] ==
        IF S = {} THEN 1
        ELSE LET mk == CHOOSE x \in S : TRUE
             IN Len(SelectSeq(es, LAMBDA e : monthKey(e.date) = mk)) * prod[S \ {mk}]
  IN prod[mks]

\* C12: every entry of recurring carries the mean of the merchant's
\* per-month averages rounded to the nearest integer and the number of the
\* merchant's distinct month keys; the list is non-increasing by mean.
C12_RecurringEntries ==
  Rendered =>
    LET rec == analysis.recurring
    IN /\ \A i \in 1..Len(rec) :
            LET a == MonthAverages(rec[i].merchant)
                k == Cardinality(a.mks)
                P == CountProduct(rec[i].merchant)
                T == SumFn(a.avg)
            IN /\ rec[i].merchant \in MeanMerchants
               /\ rec[i].months = k
               /\ 2 * rec[i].mean * k * P - 2 * T <= k * P
               /\ 2 * T - 2 * rec[i].mean * k * P <= k * P
       /\ \A i, j \in 1..Len(rec) : i < j => rec[i].mean >= rec[j].mean

\* C12 witness: 999 charged once in each of three months
C12_Witness ==
  /\ Rendered
  /\ Len(expenses) = 3
  /\ \A i \in 1..3 : expenses[i].amount = Num(999) /\ expenses[i].merchant = "Netflix"
  /\ Cardinality({monthKey(expenses[i].date) : i \in 1..3}) = 3
  /\ analysis.recurring = <<[merchant |-> "Netflix", mean |-> 999, months |-> 3]>>

\* exps with every charge of merchant m in month key mk followed by a copy
DuplicateIn(exps, m, mk) ==
  LET dup[n \in 0..Len(exps)] ==
        IF n = 0 THEN <<>>
        ELSE IF exps[n].merchant = m /\ monthKey(exps[n].date) = mk
             THEN dup[n - 1] \o <<exps[n], exps[n]>>
             ELSE Append(dup[n - 1], exps[n])
  IN dup[Len(exps)]

\* C13: the result of detectRecurring depends on the per-month averages
\* only: charging every transaction of a merchant in one month a second
\* time (same amounts, same month) leaves the whole result unchanged.
C13_DuplicationInvariant ==
  Rendered =>
    \A m \in DupMerchants, mk \in Months :
      detectRecurring(DuplicateIn(expenses, m, mk)) = analysis.recurring

\* C13 witness: a reported merchant with two different charges in one month
\* and one charge in the other, whose January charges can be duplicated
C13_Witness ==
  /\ Rendered
  /\ Len(expenses) = 3
  /\ Len(analysis.recurring) = 1
  /\ LET own == SelectSeq(expenses, LAMBDA e : e.merchant = analysis.recurring[1].merchant)
     IN /\ Len(own) = 3
        /\ \E i, j \in 1..3 :
             /\ i # j
             /\ own[i].date = own[j].date
             /\ own[i].amount # own[j].amount
  /\ Len(DuplicateIn(expenses, analysis.recurring[1].merchant, <<2024, 1>>)) > 3

\* merchant m is charged in 2 or more months and each of its per-month
\* averages is exactly zero
AllAveragesZero(m) ==
  LET a == MonthAverages(m)
  IN /\ Cardinality(a.mks) >= 2
     /\ \A mk \in a.mks : a.avg[mk] = 0

\* C14: a merchant observed in 2 or more months whose per-month averages
\* are all exactly zero is never reported (0 < 0 is false).
C14_ZeroMeanExcluded ==
  Rendered =>
    \A m \in ZeroMerchants :
      AllAveragesZero(m) =>
        \A i \in 1..Len(analysis.recurring) : analysis.recurring[i].merchant # m

\* C14 witness: a charge and its refund in one month, a free charge in the
\* other: both averages are zero and nothing is reported
C14_Witness ==
  /\ Rendered
  /\ Len(expenses) = 3
  /\ AllAveragesZero("Netflix")
  /\ \E i \in 1..3 : expenses[i].amount = Num(100)
  /\ analysis.recurring = <<>>

----------------------------------------------------------------------------
(* Properties of the suggestions *)

\* the place of a title in the order of generation
GenerationRank(title) ==
  CASE title = "Trim Wants" -> 1
    [] title = "Over Budget" -> 2
    [] title = "Frequent small spends" -> 3
    [] title = "Top Merchant" -> 4
    [] title = "Recurring" -> 5

\* C16: the suggestion list has at most 5 entries and is non-increasing by
\* impact; suggestions of equal impact stand in the order of generation
\* (trim wants, over budget, frequent small spends, top merchant,
\* recurring).
C16_RankedSuggestions ==
  Rendered =>
    LET s == suggestions(analysis)
    IN /\ Len(s) <= 5
       /\ \A i \in 1..Len(s) : IsNum(s[i].impact)
       /\ \A i, j \in 1..Len(s) :
            i < j =>
              /\ s[i].impact.v >= s[j].impact.v
              /\ s[i].impact.v = s[j].impact.v
                   => GenerationRank(s[i].title) < GenerationRank(s[j].title)

\* C16 witness: all five suggestions are due; over budget, frequent small
\* spends and recurring tie at 200 and stand before trim wants and top
\* merchant, which tie at 80
C16_Witness ==
  /\ Rendered
  /\ Len(suggestions(analysis)) = 5
  /\ suggestions(analysis)[1].title = "Over Budget"
  /\ suggestions(analysis)[1].impact = suggestions(analysis)[3].impact
  /\ suggestions(analysis)[3].title = "Recurring"
  /\ suggestions(analysis)[4].title = "Trim Wants"
  /\ suggestions(analysis)[4].impact = suggestions(analysis)[5].impact

\* the positions of the suggestions with the given title
Titled(title) ==
  {i \in 1..Len(suggestions(analysis)) : suggestions(analysis)[i].title = title}

\* C17: there is an over-budget suggestion iff budgetFlags is not empty; it
\* is about a flag whose overBy is maximal among all flags, and its impact
\* is min(overBy, 0.25 * amount) of that flag.
C17_OverBudgetSuggestion ==
  Rendered =>
    LET s == suggestions(analysis)
        flags == analysis.budgetFlags
    IN /\ (Titled("Over Budget") # {}) <=> (flags # <<>>)
       /\ Cardinality(Titled("Over Budget")) <= 1
       /\ \A i \in Titled("Over Budget") :
            \E j \in 1..Len(flags) :
              /\ flags[j].category = s[i].subject
              /\ \A k \in 1..Len(flags) : flags[j].overBy.v >= flags[k].overBy.v
              /\ ImpactScale * flags[j].overBy.v <= 5 * flags[j].amount.v
                   => s[i].impact = Num(ImpactScale * flags[j].overBy.v)
              /\ ImpactScale * flags[j].overBy.v >= 5 * flags[j].amount.v
                   => s[i].impact = Num(5 * flags[j].amount.v)

\* C17 witness: two categories are over budget, the one that spent less by
\* more; the suggestion is about it and its impact is a quarter of its spend
C17_Witness ==
  /\ Rendered
  /\ Len(analysis.budgetFlags) = 2
  /\ analysis.budgetFlags[1].overBy.v > analysis.budgetFlags[2].overBy.v
  /\ analysis.budgetFlags[1].amount.v < analysis.budgetFlags[2].amount.v
  /\ \E i \in Titled("Over Budget") :
       /\ suggestions(analysis)[i].subject = analysis.budgetFlags[1].category
       /\ suggestions(analysis)[i].impact = Num(5 * analysis.budgetFlags[1].amount.v)
       /\ suggestions(analysis)[i].impact.v < ImpactScale * analysis.budgetFlags[1].overBy.v

\* the positions of the recurring entries whose mean is at least the floor
Qualifying == {j \in 1..Len(analysis.recurring) : analysis.recurring[j].mean >= RecurringFloor}

\* C18: there is a recurring-charge suggestion iff some recurring entry has
\* a mean of at least 200; it names the first such entry of the recurring
\* list, which has the greatest mean of all entries, and its impact is that
\* mean.
C18_RecurringSuggestion ==
  Rendered =>
    LET s == suggestions(analysis)
        rec == analysis.recurring
    IN /\ (Titled("Recurring") # {}) <=> (Qualifying # {})
       /\ Cardinality(Titled("Recurring")) <= 1
       /\ \A i \in Titled("Recurring") :
            \E j \in Qualifying :
              /\ \A k \in Qualifying : j <= k
              /\ \A k \in 1..Len(rec) : rec[j].mean >= rec[k].mean
              /\ s[i].subject = rec[j].merchant
              /\ s[i].impact = Num(ImpactScale * rec[j].mean)

\* C18 witness: two merchants recur, the Gym at 199.5 (reported as 200) and
\* Netflix above it; the suggestion names Netflix
C18_Witness ==
  /\ Rendered
  /\ Len(analysis.recurring) = 2
  /\ analysis.recurring[2] = [merchant |-> "Gym", mean |-> 200, months |-> 2]
  /\ \E e \in Range(expenses) : e.amount = Num(199)
  /\ analysis.recurring[1].mean > 200
  /\ \E i \in Titled("Recurring") : suggestions(analysis)[i].subject = "Netflix"

\* C19: there is a 'Trim Wants' suggestion iff wantsNeeds.want > 0; its
\* impact is 0.2 * want; the percentage in its body is want / total * 100
\* to the nearest integer, total being the month's total with an amount that
\* is not a number counted as 0, and it is 0 when that total is 0.
C19_TrimWantsSuggestion ==
  Rendered =>
    LET s == suggestions(analysis)
        want == analysis.wantsNeeds.want
        total == ZeroSum(analysis.inMonth).v
    IN /\ (Titled("Trim Wants") # {}) <=> Gt(want, Num(0))
       /\ Cardinality(Titled("Trim Wants")) <= 1
       /\ \A i \in Titled("Trim Wants") :
            /\ s[i].impact = Num(4 * want.v)
            /\ total = 0 => s[i].percent = 0
            /\ total > 0 =>
                 /\ 2 * (s[i].percent * total - 100 * want.v) <= total
                 /\ 2 * (100 * want.v - s[i].percent * total) <= total

\* the merchants of the month with 5 or more small discretionary purchases
DrainMerchantsOfMonth == {m \in DrainMerchants : SmallCount(m) >= SmallDrainCount}

\* the first position in the month's transactions of a purchase at m; with
\* smallOnly, of a small discretionary purchase at m
FirstAt(m, smallOnly) ==
  LET P == {i \in 1..Len(analysis.inMonth) :
              /\ analysis.inMonth[i].merchant = m
              /\ smallOnly => IsSmall(analysis.inMonth[i])}
  IN CHOOSE i \in P : \A j \in P : i <= j

\* C20: there is a 'Frequent small spends' suggestion iff smallDrains is not
\* empty; it names the small-drain merchant met first in the month's
\* transactions (by its first purchase, or by its first small discretionary
\* purchase), and its impact is 100 * count * 0.4 for that merchant's count.
C20_SmallSpendsSuggestion ==
  Rendered =>
    LET s == suggestions(analysis)
    IN /\ (Titled("Frequent small spends") # {}) <=> (analysis.smallDrains # <<>>)
       /\ Cardinality(Titled("Frequent small spends")) <= 1
       /\ \A i \in Titled("Frequent small spends") :
            /\ s[i].subject \in DrainMerchantsOfMonth
            /\ \E smallOnly \in BOOLEAN :
                 \A m \in DrainMerchantsOfMonth :
                   FirstAt(s[i].subject, smallOnly) <= FirstAt(m, smallOnly)
            /\ s[i].impact = Num(ImpactScale * 40 * SmallCount(s[i].subject))


(***************************************************************************)
(* DataService methods with their failure paths: ok tells whether the      *)
(* request to the backend succeeded; the result holds what the caller got  *)
(* (threw, value) and the cache array the method leaves behind             *)
(***************************************************************************)

\* getExpenses: this.expenses = apiExpenses.map(convert...); return this.expenses;
\* catch: console.error(...); return this.expenses
DataService_getExpenses_rethrows(cacheNow, apiExpenses, ok) ==
  IF ok
  THEN LET converted == [i \in 1..Len(apiExpenses) |->
                           convertAPIExpenseToFrontend(apiExpenses[i])]
       IN [threw |-> FALSE, value |-> converted, cache |-> converted]
  ELSE [threw |-> TRUE, value |-> <<>>, cache |-> cacheNow]

DataService_getExpenses(cacheNow, apiExpenses, ok) ==
  IF ok
  THEN LET converted == [i \in 1..Len(apiExpenses) |->
                           convertAPIExpenseToFrontend(apiExpenses[i])]
       IN [threw |-> FALSE, value |-> converted, cache |-> converted]
  ELSE [threw |-> FALSE, value |-> cacheNow, cache |-> cacheNow]

\* addExpense: this.expenses.unshift(newExpense); return newExpense;
\* catch: console.error(...); throw error
DataService_addExpense_optimistic(cacheNow, apiExpense, ok) ==
  LET newExpense == convertAPIExpenseToFrontend(apiExpense)
  IN IF ok
     THEN [threw |-> FALSE, value |-> <<newExpense>>,
           cache |-> <<newExpense>> \o cacheNow]
     ELSE [threw |-> TRUE, value |-> <<>>, cache |-> <<newExpense>> \o cacheNow]

DataService_addExpense(cacheNow, apiExpense, ok) ==
  LET newExpense == convertAPIExpenseToFrontend(apiExpense)
  IN IF ok
     THEN [threw |-> FALSE, value |-> <<newExpense>>,
           cache |-> <<newExpense>> \o cacheNow]
     ELSE [threw |-> TRUE, value |-> <<>>, cache |-> cacheNow]

\* deleteExpense: await expensesAPI.delete(parseInt(id));
\* this.expenses = this.expenses.filter(exp => exp.id !== id);
\* catch: console.error(...); throw error
DataService_deleteExpense(cacheNow, id, ok) ==
  IF ok
  THEN [threw |-> FALSE, value |-> <<>>,
        cache |-> SelectSeq(cacheNow, LAMBDA e : e.id # id)]
  ELSE [threw |-> TRUE, value |-> <<>>, cache |-> cacheNow]

\* what the observer keeps of a call whose request succeeded or not (ok) and
\* that ended with result res
Outcome(op, ok, res) ==
  [op |-> op, failed |-> ~ok, threw |-> res.threw, value |-> res.value]

(***************************************************************************)
(* SpecSession: authAPI, the auth context and AuthWrapper around the       *)
(* FinanceTracker, over the DataService singleton and a backend that holds *)
(* the rows of several users                                               *)
(***************************************************************************)

MaxLogins == 2
MaxSessionRows == 2

\* AuthWrapper's render: what is on screen for useAuth()'s isLoading and
\* isAuthenticated and the component's showLogin
AuthWrapper_authFirst(loading, authenticated, showLogin) ==
  IF ~authenticated THEN (IF showLogin THEN "login" ELSE "register")
  ELSE IF loading THEN "spinner"
  ELSE "children"

AuthWrapper(loading, authenticated, showLogin) ==
  IF loading THEN "spinner"
  ELSE IF ~authenticated THEN (IF showLogin THEN "login" ELSE "register")
  ELSE "children"

\* the session s after React has rendered AuthWrapper again
Shown(s) ==
  [s EXCEPT !.screen = AuthWrapper(s.isLoading, s.isAuthenticated, s.showLogin)]

\* authAPI.login, when the backend accepts: localStorage.setItem('auth_token',
\* tokenData.access_token); when it refuses, the throw comes first
authAPI_login_clearsOnFailure(s, accessToken, ok) ==
  IF ok THEN [s EXCEPT !.token = accessToken] ELSE [s EXCEPT !.token = NoToken]

authAPI_login(s, accessToken, ok) ==
  IF ok THEN [s EXCEPT !.token = accessToken] ELSE s

\* authAPI.logout: localStorage.removeItem('auth_token')
authAPI_logout(s) == [s EXCEPT !.token = NoToken]

\* GET /expenses/ with the token of user u: the rows of u
ServerExpensesFor(u) == SelectSeq(server, LAMBDA a : a.user_id = u)

\* the one transaction the rows of this backend are made of
SessionTxn ==
  [date |-> Jan15, amount |-> Num(100), category |-> "Dining",
   merchant |-> "Cafe", need |-> FALSE]

\* the backends of at most MaxSessionRows rows, each of some user
SessionServers ==
  UNION {{[i \in 1..n |-> OwnedExpense(SessionTxn, i, owner[i])] :
            owner \in [1..n -> Users]} : n \in 0..MaxSessionRows}

\* the page is opened, with or without a token left in localStorage by an
\* earlier visit; the auth context has not yet checked it
InitSession ==
  /\ expenses = <<>>
  /\ budgets = NoBudgets
  /\ month = <<2024, 1>>
  /\ analysis = Stale
  /\ tz = 0
  /\ fpTie = FALSE
  /\ server \in SessionServers
  /\ serverBudgets = <<>>
  /\ cache = <<>>
  /\ aliased = FALSE
  /\ inflight = {}
  /\ isLoading = TRUE
  /\ nextId = Len(server) + 1
  /\ \E stored \in {NoToken, [user |-> "ann", n |-> 1]} :
       session = [token |-> stored, isLoading |-> TRUE, isAuthenticated |-> FALSE,
                  showLogin |-> TRUE, screen |-> AuthWrapper(TRUE, FALSE, TRUE),
                  headers |-> getAuthHeaders(NoToken), granted |-> stored,
                  logins |-> IF stored = NoToken THEN 0 ELSE 1]
  /\ call = NoCall

\* the FinanceTracker mounts under the token s.token: its state starts
\* empty and its useEffect sends loadData's requests with getAuthHeaders()
Mounted(s) == [s EXCEPT !.headers = getAuthHeaders(s.token)]

\* the auth context's check on page load: authAPI.getCurrentUser() with
\* getAuthHeaders(); the user is authenticated when a token was stored and
\* the backend still accepts it (valid); after a refusal the auth context
\* calls authAPI.logout() or leaves the token where it is (cleared)
CheckAuth(valid, cleared) ==
  /\ session.isLoading
  /\ valid => session.token # NoToken
  /\ cleared => ~valid
  /\ LET checked == [session EXCEPT !.isLoading = FALSE,
                                    !.isAuthenticated = valid,
                                    !.headers = getAuthHeaders(session.token)]
     IN session' =
          IF cleared THEN Shown([authAPI_logout(checked) EXCEPT !.granted = NoToken])
          ELSE Shown(checked)
  /\ inflight' = IF valid
                 THEN inflight \cup
                        {[kind |-> "load", month |-> month, token |-> session.token]}
                 ELSE inflight
  /\ call' = [op |-> "getCurrentUser", failed |-> ~valid, threw |-> ~valid,
              value |-> <<>>]
  /\ UNCHANGED <<expenses, budgets, month, analysis, tz, fpTie, server,
                 serverBudgets, cache, aliased, isLoading, nextId>>

\* the Login form is submitted for user u: authAPI.login, and when it
\* succeeded the FinanceTracker mounts and loadData sends its requests
Login(u, ok) ==
  /\ session.screen = "login"
  /\ session.logins < MaxLogins
  /\ LET accessToken == [user |-> u, n |-> session.logins + 1]
         stored == authAPI_login(session, accessToken, ok)
     IN /\ session' =
             IF ok
             THEN Shown(Mounted([stored EXCEPT !.isAuthenticated = TRUE,
                                               !.granted = accessToken,
                                               !.logins = session.logins + 1]))
             ELSE Shown(stored)
        /\ inflight' = IF ok
                       THEN inflight \cup {[kind |-> "load", month |-> month,
                                            token |-> accessToken]}
                       ELSE inflight
        /\ call' = [op |-> "login", failed |-> ~ok, threw |-> ~ok,
                    value |-> IF ok THEN <<accessToken>> ELSE <<>>]
  /\ expenses' = <<>>
  /\ isLoading' = TRUE
  /\ aliased' = FALSE
  /\ UNCHANGED <<budgets, month, analysis, tz, fpTie, server, serverBudgets,
                 cache, nextId>>

\* the Logout button: authAPI.logout and the FinanceTracker unmounts; the
\* DataService singleton and its pending requests stay
Logout ==
  /\ session.screen = "children"
  /\ session' = Shown([authAPI_logout(session) EXCEPT !.isAuthenticated = FALSE,
                                                      !.granted = NoToken])
  /\ call' = [op |-> "logout", failed |-> FALSE, threw |-> FALSE, value |-> <<>>]
  /\ expenses' = <<>>
  /\ isLoading' = TRUE
  /\ aliased' = FALSE
  /\ UNCHANGED <<budgets, month, analysis, tz, fpTie, server, serverBudgets,
                 cache, inflight, nextId>>

\* onSwitchToRegister={() => setShowLogin(false)}
SwitchToRegister ==
  /\ session.screen = "login"
  /\ session' = Shown([session EXCEPT !.showLogin = FALSE])
  /\ UNCHANGED <<expenses, budgets, month, analysis, tz, fpTie, appVars, call>>

\* onSwitchToLogin={() => setShowLogin(true)}
SwitchToLogin ==
  /\ session.screen = "register"
  /\ session' = Shown([session EXCEPT !.showLogin = TRUE])
  /\ UNCHANGED <<expenses, budgets, month, analysis, tz, fpTie, appVars, call>>

\* loadData's dataService.getExpenses() of request r ends; its setData
\* reaches the FinanceTracker that sent it if that one is still mounted
SessionLoadDone(r, ok) ==
  /\ r \in inflight
  /\ LET res == DataService_getExpenses(cache, ServerExpensesFor(r.token.user), ok)
         mounted == session.isAuthenticated /\ session.token = r.token
     IN /\ cache' = res.cache
        /\ call' = Outcome("getExpenses", ok, res)
        /\ expenses' = IF mounted THEN res.value ELSE expenses
        /\ aliased' = IF mounted THEN TRUE ELSE aliased
        /\ isLoading' = IF mounted THEN FALSE ELSE isLoading
  /\ inflight' = inflight \ {r}
  /\ UNCHANGED <<budgets, month, analysis, tz, fpTie, server, serverBudgets,
                 nextId, session>>

NextSession ==
  \/ \E valid \in BOOLEAN, cleared \in BOOLEAN : CheckAuth(valid, cleared)
  \/ \E u \in Users, ok \in BOOLEAN : Login(u, ok)
  \/ Logout
  \/ SwitchToRegister
  \/ SwitchToLogin
  \/ \E r \in inflight, ok \in BOOLEAN : SessionLoadDone(r, ok)

SpecSession == InitSession /\ [][NextSession]_vars

(***************************************************************************)
(* Properties of the session                                               *)
(***************************************************************************)

\* C21: AuthWrapper shows its children exactly when isLoading is false and
\* isAuthenticated is true; while loading it shows the spinner; while
\* unauthenticated it shows Login first and then exactly one of Login and
\* Register, and only the two switch callbacks change which one
C21_AuthGate ==
  /\ session.showLogin
  /\ [](/\ (session.screen = "children") <=>
             (~session.isLoading /\ session.isAuthenticated)
        /\ session.isLoading => session.screen = "spinner"
        /\ (~session.isLoading /\ ~session.isAuthenticated) =>
             session.screen = (IF session.showLogin THEN "login" ELSE "register"))
  /\ [][session'.showLogin # session.showLogin =>
          \/ session.screen = "login" /\ session'.screen = "register"
               /\ SwitchToRegister
          \/ session.screen = "register" /\ session'.screen = "login"
               /\ SwitchToLogin]_vars

\* the children are on screen after a login through the Login form
C21_Witness == session.screen = "children" /\ call.op = "login"

(***************************************************************************)
(* SpecService: the FinanceTracker over the DataService when requests for  *)
(* expenses may fail (ok = FALSE); the requests for budgets succeed        *)
(***************************************************************************)

\* loadData after its awaits: setData({ expenses, categories, budgets }) and
\* setIsLoading(false); were getExpenses to throw, the catch block's
\* setData(SAMPLE_DATA) throws on the undeclared name and data stays
LoadData(r, ok) ==
  /\ r \in inflight
  /\ r.kind = "load"
  /\ LET res == DataService_getExpenses(cache, ServerExpenses(r), ok)
     IN /\ cache' = res.cache
        /\ call' = Outcome("getExpenses", ok, res)
        /\ expenses' = IF res.threw THEN expenses ELSE res.value
        /\ aliased' = IF res.threw THEN aliased ELSE TRUE
        /\ budgets' = IF res.threw THEN budgets ELSE FetchBudgets(r.month)
  /\ isLoading' = FALSE
  /\ inflight' = inflight \ {r}
  /\ analysis' = Stale
  /\ UNCHANGED <<month, tz, fpTie, server, serverBudgets, nextId, session>>

\* the month input's onChange after its awaits:
\* setData(prev => ({ ...prev, expenses, budgets })); its catch only logs
MonthData(r, ok) ==
  /\ r \in inflight
  /\ r.kind = "month"
  /\ LET res == DataService_getExpenses(cache, ServerExpenses(r), ok)
     IN /\ cache' = res.cache
        /\ call' = Outcome("getExpenses", ok, res)
        /\ expenses' = IF res.threw THEN expenses ELSE res.value
        /\ aliased' = IF res.threw THEN aliased ELSE TRUE
        /\ budgets' = IF res.threw THEN budgets ELSE FetchBudgets(r.month)
  /\ inflight' = inflight \ {r}
  /\ analysis' = Stale
  /\ UNCHANGED <<month, tz, fpTie, server, serverBudgets, isLoading, nextId,
                 session>>

\* addExpense: on success setData prepends the new expense to prev.expenses,
\* which is the cache array itself while the two are aliased; on a throw the
\* catch block logs and alerts
SubmitExpense(t, ok) ==
  /\ ~isLoading
  /\ nextId <= MaxAppId
  /\ LET res == DataService_addExpense(cache, ApiExpense(t, nextId), ok)
         held == IF aliased THEN res.cache ELSE expenses
     IN /\ cache' = res.cache
        /\ call' = Outcome("addExpense", ok, res)
        /\ expenses' = IF res.threw THEN held ELSE res.value \o held
        /\ aliased' = IF res.threw THEN aliased ELSE FALSE
  /\ server' = IF ok THEN <<ApiExpense(t, nextId)>> \o server ELSE server
  /\ nextId' = IF ok THEN nextId + 1 ELSE nextId
  /\ analysis' = Stale
  /\ UNCHANGED <<budgets, month, tz, fpTie, serverBudgets, inflight, isLoading,
                 session>>

\* deleteExpense: on success setData filters prev.expenses; on a throw the
\* catch block logs and alerts
RemoveExpense(id, ok) ==
  /\ ~isLoading
  /\ \E i \in 1..Len(expenses) : expenses[i].id = id
  /\ LET res == DataService_deleteExpense(cache, id, ok)
     IN /\ cache' = res.cache
        /\ call' = Outcome("deleteExpense", ok, res)
        /\ expenses' = IF res.threw THEN expenses
                       ELSE SelectSeq(expenses, LAMBDA e : e.id # id)
        /\ aliased' = IF res.threw THEN aliased ELSE FALSE
  /\ server' = IF ok THEN SelectSeq(server, LAMBDA a : a.id # parseInt(id))
               ELSE server
  /\ analysis' = Stale
  /\ UNCHANGED <<budgets, month, tz, fpTie, serverBudgets, inflight, isLoading,
                 nextId, session>>

NextService ==
  \/ \E r \in inflight, ok \in BOOLEAN : LoadData(r, ok)
  \/ \E m \in Months : ChangeMonth(m)
  \/ \E r \in inflight, ok \in BOOLEAN : MonthData(r, ok)
  \/ \E t \in AppTxns, ok \in BOOLEAN : SubmitExpense(t, ok)
  \/ \E i \in 1..MaxAppId, ok \in BOOLEAN : RemoveExpense(ToString(i), ok)

SpecService == InitApp /\ [][NextService]_vars

(***************************************************************************)
(* Properties of the DataService's failure paths                           *)
(***************************************************************************)

\* C22: when the request for expenses fails, DataService.getExpenses does
\* not throw: it returns the cached expenses, as the successful adds and
\* deletes have left them, and the cache stays as it is; when the request
\* succeeds the cache is replaced by the converted response
C22_ExpensesFallback ==
  [][\A r \in inflight : r \notin inflight' =>
       /\ call'.op = "getExpenses"
       /\ ~call'.threw
       /\ call'.value = cache'
       /\ expenses' = call'.value
       /\ IF call'.failed
          THEN cache' = cache
          ELSE cache' = [i \in 1..Len(ServerExpenses(r)) |->
                           convertAPIExpenseToFrontend(ServerExpenses(r)[i])]]_vars

\* a failed request after a successful add: the cache that is returned
\* holds the added expense, whose id is above those of the initial rows
C22_Witness ==
  /\ call.op = "getExpenses"
  /\ call.failed
  /\ nextId > MaxServerLen + 1
  /\ \E i \in 1..Len(call.value) : call.value[i].id = ToString(nextId - 1)

\* C23: after any sequence of logins, failed logins and logouts the stored
\* auth_token is the access_token of the most recent successful login if no
\* logout followed it, and absent otherwise (a failed login leaves it as it
\* was); getAuthHeaders carries Authorization: Bearer <token> exactly when
\* a token is stored
C23_StoredToken ==
  /\ session.token = session.granted
  /\ LET headers == getAuthHeaders(session.token)
     IN /\ ("Authorization" \in DOMAIN headers) <=> (session.token # NoToken)
        /\ session.token # NoToken =>
             headers["Authorization"] = <<"Bearer", session.token>>

\* a login was refused while the token of an earlier login was stored
C23_Witness ==
  /\ call.op = "login"
  /\ call.failed
  /\ session.token # NoToken

\* the number of expenses with the given id in data.expenses
Occurrences(id) == Cardinality({i \in 1..Len(expenses) : expenses[i].id = id})

\* C24: after a successful addExpense in the FinanceTracker, whatever loads,
\* adds and deletes came before, the new expense occurs exactly once in
\* data.expenses
C24_AddedOnce ==
  (call.op = "addExpense" /\ ~call.failed) => Occurrences(call.value[1].id) = 1

(***************************************************************************)
(* SpecSetBudget: DataService.setBudget in its two requests, the lookup    *)
(* budgetsAPI.getAll(month) and the write (update or create), for budget   *)
(* inputs edited while earlier calls are still in flight                   *)
(***************************************************************************)

MaxBudgetRows == 3

\* the amounts of the keystrokes "2" and "25" in a budget input
TypedBudgets == {2, 25}

\* the dashboard is loaded, the backend holds no budget, nothing is pending
InitSetBudget ==
  /\ expenses = <<>>
  /\ month \in Months
  /\ budgets = [c \in DefaultCategories |-> 0]
  /\ analysis = Stale
  /\ tz = 0
  /\ fpTie = FALSE
  /\ AppAtRest

\* setBudget up to its first await: the budget input's onChange calls
\* dataService.setBudget(cat, Number(val) || 0, month), which sends
\* budgetsAPI.getAll(month)
TypeBudget(cat, amount) ==
  /\ Cardinality(inflight) < MaxInflight
  /\ Len(serverBudgets) + Cardinality(inflight) < MaxBudgetRows
  /\ inflight' = inflight \cup
       {[kind |-> "lookup", month |-> month, category |-> cat,
         amount |-> amount, existing |-> 0]}
  /\ UNCHANGED <<expenses, budgets, month, analysis, tz, fpTie, server,
                 serverBudgets, cache, aliased, isLoading, nextId, sessionVars>>

\* the lookup of call r is answered: existingBudgets.find(...) on the rows
\* the backend held at that moment, then the update or the create is sent
BudgetLookedUp(r) ==
  /\ r \in inflight
  /\ r.kind = "lookup"
  /\ inflight' = (inflight \ {r}) \cup
       {[r EXCEPT !.kind = "write",
                  !.existing = FindBudget(ServerBudgetsOf(r.month), r.category)]}
  /\ UNCHANGED <<expenses, budgets, month, analysis, tz, fpTie, server,
                 serverBudgets, cache, aliased, isLoading, nextId, sessionVars>>

\* the write of call r reaches the backend and is answered:
\* this.budgets[category] = amount, then the FinanceTracker's
\* setData(prev => ({ ...prev, budgets: { ...prev.budgets, [cat]: amount } }))
BudgetWritten(r) ==
  /\ r \in inflight
  /\ r.kind = "write"
  /\ serverBudgets' =
       IF r.existing # 0 THEN UpdateBudget(serverBudgets, r.existing, r.amount)
       ELSE CreateBudget(serverBudgets, r.category, r.amount, r.month)
  /\ budgets' = [c \in DOMAIN budgets \cup {r.category} |->
                   IF c = r.category THEN r.amount ELSE budgets[c]]
  /\ inflight' = inflight \ {r}
  /\ call' = [op |-> "setBudget", failed |-> FALSE, threw |-> FALSE, value |-> <<>>]
  /\ analysis' = Stale
  /\ UNCHANGED <<expenses, month, tz, fpTie, server, cache, aliased, isLoading,
                 nextId, session>>

NextSetBudget ==
  \/ \E cat \in DefaultCategories, v \in TypedBudgets : TypeBudget(cat, v)
  \/ \E r \in inflight : BudgetLookedUp(r)
  \/ \E r \in inflight : BudgetWritten(r)

SpecSetBudget == InitSetBudget /\ [][NextSetBudget]_vars

\* C25: whatever the interleaving of DataService.setBudget calls, two calls
\* in flight for the same category and month included, the backend ends
\* with at most one budget record per (category, month)
C25_OneBudgetPerCategory ==
  inflight = {} =>
    \A i \in 1..Len(serverBudgets), j \in 1..Len(serverBudgets) :
      (serverBudgets[i].category = serverBudgets[j].category
         /\ serverBudgets[i].month = serverBudgets[j].month) => i = j

(***************************************************************************)
(* SpecMonth: the month input changed while earlier requests are pending;  *)
(* the responses arrive in any order                                       *)
(***************************************************************************)

\* the budgets tables the backend may hold: none, or one of 250 for
\* Entertainment in January 2024
MonthBudgetTables ==
  {<<>>, CreateBudget(<<>>, "Entertainment", 250, <<2024, 1>>)}

\* the FinanceTracker mounts: loadData's requests are in flight
InitMonth ==
  /\ expenses = <<>>
  /\ budgets = NoBudgets
  /\ month \in Months
  /\ tz = 0
  /\ fpTie = FALSE
  /\ analysis = Stale
  /\ server \in {[i \in 1..Len(ts) |-> ApiExpense(ts[i], Len(ts) + 1 - i)] :
                   ts \in InputsUpTo(AppTxns, MaxServerLen)}
  /\ serverBudgets \in MonthBudgetTables
  /\ cache = <<>>
  /\ aliased = FALSE
  /\ inflight = {[kind |-> "load", month |-> month]}
  /\ isLoading = TRUE
  /\ nextId = Len(server) + 1
  /\ session = SignedIn
  /\ call = NoCall

NextMonth ==
  \/ \E r \in inflight : LoadDataDone(r)
  \/ \E m \in Months : ChangeMonth(m)
  \/ \E r \in inflight : MonthDataDone(r)

SpecMonth == InitMonth /\ [][NextMonth]_vars

\* C26: once every pending load has completed, the budgets and expenses in
\* data are those fetched for the month that is selected (the expenses of
\* loadData, which asks for no month, as long as no month request has
\* replaced them), whatever the order of the responses
C26_SelectedMonthShown ==
  (inflight = {} /\ ~isLoading) =>
    /\ budgets = FetchBudgets(month)
    /\ \/ expenses = FetchExpenses([kind |-> "month", month |-> month])
       \/ expenses = FetchExpenses([kind |-> "load", month |-> month])

\* the user whose row of the backend has the id of expense e
OwnerOf(e) ==
  server[CHOOSE i \in 1..Len(server) : ToString(server[i].id) = e.id].user_id

\* C27: after user A has logged out and user B has logged in, in the same
\* page session, the DataService singleton returns no expense of A to B:
\* neither what getExpenses hands to B's FinanceTracker, a failed fetch
\* with its cached fallback included, nor what getCachedExpenses would copy
C27_UserIsolation ==
  session.isAuthenticated =>
    /\ \A i \in 1..Len(expenses) : OwnerOf(expenses[i]) = session.token.user
    /\ \A i \in 1..Len(cache) : OwnerOf(cache[i]) = session.token.user

(***************************************************************************)
(* Properties of monthKey and of the outlier rule                          *)
(***************************************************************************)

\* C28: for every YYYY-MM-DD date string monthKey returns its YYYY-MM
\* prefix, whatever the timezone of the host, so that the transactions of
\* the first and the last day of a month are grouped under that month
C28_MonthKeyPrefix ==
  \A i \in 1..Len(expenses) :
    monthKey(expenses[i].date) = <<expenses[i].date.y, expenses[i].date.m>>

(***************************************************************************)
(* SpecFive: categories of about five transactions in the focus month,     *)
(* with the amounts 199 and 250                                            *)
(***************************************************************************)

MaxFiveLen == 2

FiveTxns == {Txn(Feb15, 199, "Dining", "Cafe"), Txn(Feb15, 250, "Dining", "Cafe"),
             Txn(Feb15, 199, "Rent", "Cafe"), Txn(Feb15, 250, "Rent", "Cafe")}

\* the month's usual charges: dn of 199 in Dining
FiveBase(dn) == Repeat(Txn(Feb15, 199, "Dining", "Cafe"), dn)

InitFive ==
  /\ expenses \in {WithIds(ts \o FiveBase(dn)) :
                     ts \in InputsUpTo(FiveTxns, MaxFiveLen), dn \in {0, 3, 4, 5}}
  /\ budgets = NoBudgets
  /\ month = <<2024, 2>>
  /\ tz = 0
  /\ fpTie \in BOOLEAN
  /\ analysis = Stale
  /\ AppAtRest

NextFive == Render

SpecFive == InitFive /\ [][NextFive]_vars

\* C29: a category with at most 5 transactions in the focus month never
\* contributes an outlier, whatever the amounts
C29_FiveAreQuiet ==
  Rendered =>
    \A i \in 1..Len(analysis.outliers) :
      Len(OfCategory(analysis.outliers[i].category)) > 5

\* C30: when the request inside DataService.addExpense or deleteExpense
\* fails, the error is rethrown, the DataService cache is left as it was
\* and so is the FinanceTracker's data.expenses
C30_FailedWriteChangesNothing ==
  [][(call'.op \in {"addExpense", "deleteExpense"} /\ call'.failed) =>
       /\ call'.threw
       /\ cache' = cache
       /\ expenses' = expenses
       /\ server' = server]_vars

\* an add was refused while the dashboard listed expenses
C30_Witness ==
  /\ call.op = "addExpense"
  /\ call.failed
  /\ Len(expenses) > 0
  /\ aliased

====
